---- MODULE Spec2Model ----
(***************************************************************************)
(* Model of the asynchronous transcript pipeline of brandvoice-scaffold:   *)
(* the background driver process_videos of src/api/server.py, the command  *)
(* line driver process_json_file of src/main_json.py, the polling loop and *)
(* transcript extraction of src/clients/opus_client.py and the dedup gate  *)
(* and CSV writer of src/utils/csv_generator.py.                           *)
(*                                                                         *)
(* Time is counted in poll intervals (poll_interval, 10 s in the source,   *)
(* is one tick).  Code that runs on the event loop takes no time; time     *)
(* passes only while every worker thread sleeps or waits for the service.  *)
(* Python references (a video dict, its status entry) are indices into the *)
(* job's lists.  Strings that the code only compares are TLA+ strings;     *)
(* transcript text is a sequence of one-character strings.                 *)
(***************************************************************************)
EXTENDS Integers, Sequences, FiniteSets, TLC

\* ------------------------------------------------------------------ bounds
\* Number of records in the uploaded file.
MaxVideos == 2
\* max_wait_seconds / poll_interval: 600 / 10 = 60 in the source.
MaxWaitTicks == 2

\* ------------------------------------------------------------ small helpers
Range(s) == {s[i] : i \in 1..Len(s)}

Min(a, b) == IF a < b THEN a ELSE b

RECURSIVE SumSeq(_)
SumSeq(s) == IF s = <<>> THEN 0 ELSE Head(s) + SumSeq(Tail(s))

\* [x for x in s if Test(x)]
SelectIdx(s, Test(_)) ==
  LET F[i \in 0..Len(s)] ==
        IF i = 0 THEN <<>>
        ELSE IF Test(i) THEN Append(F[i-1], s[i]) ELSE F[i-1]
  IN F[Len(s)]

\* ------------------------------------------------------------------ strings
\* str.strip(): leading and trailing blanks removed.
RECURSIVE LStrip(_)
LStrip(s) == IF s # <<>> /\ Head(s) = " " THEN LStrip(Tail(s)) ELSE s

RECURSIVE RStrip(_)
RStrip(s) ==
  IF s # <<>> /\ s[Len(s)] = " " THEN RStrip(SubSeq(s, 1, Len(s) - 1)) ELSE s

Strip(s) == RStrip(LStrip(s))

\* sep.join(parts)
RECURSIVE Join(_, _)
Join(parts, sep) ==
  IF parts = <<>> THEN <<>>
  ELSE IF Len(parts) = 1 THEN parts[1]
  ELSE parts[1] \o sep \o Join(Tail(parts), sep)

\* f"[Visual: {text}]"
VisualMarker(text) == <<"[", "V", "i", "s", "u", "a", "l", ":", " ">> \o text \o <<"]">>

\* ------------------------------------------------------- transcript extraction
\* The verbal parts of one chapter's lines, in order.
RECURSIVE VerbalParts(_)
VerbalParts(lines) ==
  IF lines = <<>> THEN <<>>
  ELSE LET line == Head(lines)
           content == Strip(line.content)
       IN (IF line.type = "verbal" /\ content # <<>> THEN <<content>> ELSE <<>>)
            \o VerbalParts(Tail(lines))

\* The parts of one chapter's lines in enhanced mode, in order.
RECURSIVE EnhancedLineParts(_)
EnhancedLineParts(lines) ==
  IF lines = <<>> THEN <<>>
  ELSE LET line == Head(lines)
           content == Strip(line.content)
       IN (IF content = <<>> THEN <<>>
           ELSE IF line.type = "verbal" THEN <<content>>
           ELSE IF line.type = "visual" THEN <<VisualMarker(content)>>
           ELSE <<>>)
            \o EnhancedLineParts(Tail(lines))

RECURSIVE VerbalChapters(_)
VerbalChapters(chapters) ==
  IF chapters = <<>> THEN <<>>
  ELSE VerbalParts(Head(chapters).lines) \o VerbalChapters(Tail(chapters))

RECURSIVE EnhancedChapters(_)
EnhancedChapters(chapters) ==
  IF chapters = <<>> THEN <<>>
  ELSE LET chapter == Head(chapters)
           summary == Strip(chapter.summary)
       IN (IF summary # <<>> THEN <<VisualMarker(summary)>> ELSE <<>>)
            \o EnhancedLineParts(chapter.lines)
            \o EnhancedChapters(Tail(chapters))

get_verbal_transcript(chapters) == Join(VerbalChapters(chapters), <<>>)

\* An enhanced transcript whose parts are joined without a separator.
get_enhanced_transcript_NoSpace(chapters) == Join(EnhancedChapters(chapters), <<>>)

get_enhanced_transcript(chapters) == Join(EnhancedChapters(chapters), <<" ">>)

\* A screenplay dict is [empty, chapters]: empty is TRUE for {} (falsy).
extract_transcript_from_screenplay(screenplay) ==
  IF screenplay.empty THEN <<>> ELSE get_verbal_transcript(screenplay.chapters)

extract_enhanced_transcript_from_screenplay(screenplay) ==
  IF screenplay.empty THEN <<>> ELSE get_enhanced_transcript(screenplay.chapters)

\* ------------------------------------------------------------------- domains
\* Job ids handed out by start_processing (uuid4 in the source).
Jobs == {1, 2}

\* Time a status request may take before it answers or raises, in ticks.
Latencies == {0, 1}

\* Sizes of the default thread pool that run_in_executor(None, ...) uses:
\* min(32, cpu_count + 4) threads, a property of the host.
PoolSizes == {1, MaxVideos}

Ids == 1..MaxVideos

\* What submit_project can do: return a response with a projectId, return
\* one without, or raise (requests.exceptions.RequestException).
SubmitOutcomes == {"handle", "no_handle", "raise"}

\* What one status request can do: answer with a stage, or raise.
FAILURE_STAGES == {"FAILED", "ERROR", "STALLED"}

PollOutcomes == {"PROCESSING", "COMPLETE", "raise"} \cup FAILURE_STAGES

\* Screenplays the service can attach to a clip.
NoLines == [summary |-> <<>>, lines |-> <<>>]

Verbal(c) == [type |-> "verbal", content |-> c]

Visual(c) == [type |-> "visual", content |-> c]

EmptyDict == [empty |-> TRUE, chapters |-> <<>>]

Screenplay(chapters) == [empty |-> FALSE, chapters |-> chapters]

Screenplays ==
  { EmptyDict,
    Screenplay(<<>>),
    Screenplay(<<[summary |-> <<>>, lines |-> <<Verbal(<<" ">>)>>]>>),
    Screenplay(<<[summary |-> <<"s">>, lines |-> <<Verbal(<<"a">>), Visual(<<"b">>)>>]>>) }

\* What get_exportable_clips can do: raise, or return a list of clips.
FetchOutcomes ==
  {[raised |-> TRUE, clips |-> <<>>]}
    \cup {[raised |-> FALSE, clips |-> <<>>]}
    \cup {[raised |-> FALSE, clips |-> <<[screenplay |-> sp]>>] : sp \in Screenplays}

\* A screenplay with a usable chapter structure.
Spoken == Screenplay(<<[summary |-> <<>>, lines |-> <<Verbal(<<"z">>)>>]>>)

\* Clip lists of two entries: a first entry of any kind followed by a usable
\* one, and a usable one followed by one without screenplay.
FetchOutcomesMany ==
  FetchOutcomes
    \cup {[raised |-> FALSE, clips |-> <<[screenplay |-> sp], [screenplay |-> Spoken]>>] :
            sp \in Screenplays}
    \cup {[raised |-> FALSE, clips |-> <<[screenplay |-> Spoken], [screenplay |-> EmptyDict]>>]}

\* What writing a file can do: succeed, raise before the file exists, or
\* raise after the file was opened and some of the rows were written.
WriteOutcomes == {"ok", "raise", "raise_partial"}

\* Request bodies of /api/process (ProcessConfig).
Configs ==
  {[videosToProcess |-> 0, batchSize |-> 10, parameterMode |-> "auto",
    language |-> "English", maxChar |-> 150]}

\* Requests that leave the conversion parameters to the analysis, with the
\* defaults or with values of the caller, and one that fixes them.
LlmConfigs ==
  {[videosToProcess |-> 0, batchSize |-> 10, parameterMode |-> m,
    language |-> p[1], maxChar |-> p[2]] :
     m \in {"auto", "manual"}, p \in {<<"English", 150>>, <<"French", 100>>}}

\* The analysis was not made: manual mode, or no OPENAI_API_KEY.
NotAsked == [kind |-> "not_asked", language |-> "absent", max_char |-> 0]

NoKey == [kind |-> "no_key", language |-> "absent", max_char |-> 0]

\* What the analysis can do once it has credentials: the call raises, the
\* response is not JSON, it is JSON but not an object, or it is an object that
\* has a language, a max_char, both or neither.
LlmAnswers ==
  {[kind |-> k, language |-> "absent", max_char |-> 0] :
     k \in {"call_raised", "unparsable", "not_object"}}
    \cup {[kind |-> "object", language |-> l, max_char |-> m] :
            l \in {"absent", "Spanish"}, m \in {0, 200}}

\* Batch sizes: one record per batch, two, and the default of ProcessConfig.
BatchSizes == {1, 2, 10}

\* Requests that differ in batchSize only.
BatchConfigs ==
  {[videosToProcess |-> 0, batchSize |-> b, parameterMode |-> "auto",
    language |-> "English", maxChar |-> 150] : b \in BatchSizes}

NoJob == [status |-> "absent"]

\* An artifact path: whether the file exists, and its rows.
NoFile == [exists |-> FALSE, rows |-> <<>>]

File(rows) == [exists |-> TRUE, rows |-> rows]

\* No function is applied on its own while the pipeline runs.
NoCall == [fn |-> "none"]

NoSummary == [processed |-> -1, skipped |-> -1]

\* ---------------------------------------------------------------------- state
VARIABLES
  env,          \* the host: OPUSCLIP_API_KEY set, pool size, the uploaded file
  jobs_store,   \* jobs_store of server.py: job id -> job dict
  drv,          \* the frame of process_videos(job_id): position and locals
  tasks,        \* per job, one wait_and_extract coroutine per submission
  loop,         \* the driver that holds the event loop, 0 when it is idle
  ready,        \* the event loop's queue of callbacks ready to run
  work_queue,   \* the thread pool's queue of polling loops not yet started
  now,          \* time.time(), in ticks
  output,       \* output/<channel>_<timestamp>.csv: 0 for the file of an earlier
                \* run, j for the file job j writes -> rows
  training,     \* training_data/<channel>_*.jsonl: job -> number of examples, -1: no file
  svc,          \* the external service's record of the calls it received
  applied       \* a function of the pipeline applied on its own: input and result

vars ==
  <<env, jobs_store, drv, tasks, loop, ready, work_queue, now, output, training, svc, applied>>

\* The list process_json_file returns for the uploaded file: n records with
\* distinct ids, sorted by descending view count.
FileVideos(n) ==
  [i \in 1..n |-> [video_id |-> i, view_count |-> MaxVideos - i,
                   project_id |-> 0, transcript |-> <<>>, transcript_source |-> "absent"]]

\* A row of a tabular artifact (CSVGenerator.prepare_row).
prepare_row(video) ==
  [video_id |-> video.video_id, transcript |-> video.transcript,
   transcript_source |-> IF video.transcript_source = "absent" THEN "unknown"
                         ELSE video.transcript_source]

\* The artifact a previous run left for the channel, holding the ids of S.
PriorRows(S) ==
  LET all == FileVideos(MaxVideos)
  IN SelectIdx([i \in 1..MaxVideos |->
                  prepare_row([all[i] EXCEPT !.transcript = <<"a">>,
                                             !.transcript_source = "opusclip"])],
               LAMBDA i : i \in S)

InitDrv ==
  [pc |-> "none", videos |-> <<>>, new_videos |-> <<>>, skipped_videos |-> <<>>,
   i |-> 0, b |-> 0, project_submissions |-> <<>>, videos_with_transcripts |-> <<>>,
   analysis |-> [kind |-> "none", language |-> "absent", max_char |-> 0],
   suggested_language |-> "none", suggested_max_char |-> 0,
   converter |-> [language |-> "none", max_char |-> 0]]

\* The state after the server started and one file was uploaded.  requests is
\* the number of /api/process requests the client goes on to send, configs
\* the request bodies it may send.
StartedAgainst(requests, keys, pools, latencies, sizes, configs, answers, openai_keys, stages) ==
  /\ env \in [opus_api_key : keys, max_workers : pools, latencies : {latencies},
              requests : {requests}, file_videos : {FileVideos(n) : n \in sizes},
              configs : {configs}, fetch_outcomes : {answers},
              openai_api_key : openai_keys, poll_outcomes : {stages}]
  /\ jobs_store = [j \in Jobs |-> NoJob]
  /\ drv = [j \in Jobs |-> InitDrv]
  /\ tasks = [j \in Jobs |-> <<>>]
  /\ loop = 0
  /\ ready = <<>>
  /\ work_queue = <<>>
  /\ now = 0
  /\ \E S \in SUBSET Ids :
       output = [f \in {0} \cup Jobs |-> IF f = 0 /\ S # {} THEN File(PriorRows(S)) ELSE NoFile]
  /\ training = [j \in Jobs |-> -1]
  /\ svc = [submits |-> <<>>, fetches |-> <<>>]
  /\ applied = NoCall

\* A service whose status requests can do anything.
StartedOn(requests, keys, pools, latencies, sizes, configs, answers, openai_keys) ==
  StartedAgainst(requests, keys, pools, latencies, sizes, configs, answers, openai_keys,
                 PollOutcomes)

\* A host without OPENAI_API_KEY.
StartedFrom(requests, keys, pools, latencies, sizes, configs, answers) ==
  StartedOn(requests, keys, pools, latencies, sizes, configs, answers, {FALSE})

StartedWith(requests, keys, pools, latencies, sizes, configs) ==
  StartedFrom(requests, keys, pools, latencies, sizes, configs, FetchOutcomes)

Started(requests, keys, pools, latencies, sizes) ==
  StartedWith(requests, keys, pools, latencies, sizes, Configs)

\* One run, on any host and any uploaded file.
Init == Started(1, BOOLEAN, PoolSizes, {0}, 0..MaxVideos)

\* One run on a file of one record, with status requests that take time.
InitPoll == Started(1, {TRUE}, {1}, Latencies, {1})

\* Two runs on the same uploaded file of one record, which may overlap in time.
InitRuns == Started(2, {TRUE}, {1}, {0}, {1})

\* One run on any uploaded file, requested with any of the batch sizes.
InitBatch == StartedWith(1, {TRUE}, {1}, {0}, 0..MaxVideos, BatchConfigs)

\* One run on a file of one record, on a host with or without OPENAI_API_KEY,
\* requested in auto or manual parameter mode.
InitLlm == StartedOn(1, {TRUE}, {1}, {0}, {1}, LlmConfigs, FetchOutcomes, BOOLEAN)

\* Request bodies that differ in the count limit; 0 means no limit.
LimitConfigs ==
  {[videosToProcess |-> n, batchSize |-> 10, parameterMode |-> "auto",
    language |-> "English", maxChar |-> 150] : n \in 0..MaxVideos}

\* One run on any uploaded file with any count limit, against a service whose
\* clip lists are usable.
InitLimit ==
  StartedFrom(1, {TRUE}, {1}, {0}, 0..MaxVideos, LimitConfigs,
              {[raised |-> FALSE, clips |-> <<[screenplay |-> Spoken]>>]})

\* Two runs on the same uploaded file of two records, against a service whose
\* status requests take time and answer COMPLETE or FAILED, and whose clip
\* lists are usable or empty.
InitRetry ==
  StartedAgainst(2, {TRUE}, {1}, {1}, {2}, Configs,
                 {[raised |-> FALSE, clips |-> <<>>],
                  [raised |-> FALSE, clips |-> <<[screenplay |-> Spoken]>>]},
                 {FALSE}, {"COMPLETE", "FAILED"})

\* One run on a file of two records against a service that may answer with
\* clip lists of two entries.
InitExtract == StartedFrom(1, {TRUE}, {1}, {0}, {2}, Configs, FetchOutcomesMany)

\* ------------------------------------------------------------ shared pieces
\* A completion that leaves the progress where the last phase put it.
Completed_StaleProgress(job, phase, summary) ==
  [job EXCEPT !.status = "completed", !.currentPhase = phase, !.summary = summary]

\* Lines 241-254 and 525-541: the run ends well.
Completed(job, phase, summary) ==
  [job EXCEPT !.status = "completed", !.progress = 100, !.currentPhase = phase,
              !.summary = summary]

\* An except clause that marks the run errored but drops the message.
Failed_NoMessage(job, msg) == [job EXCEPT !.status = "error"]

\* The except clause of process_videos: the run ends in error with the message.
Failed(job, msg) ==
  [job EXCEPT !.status = "error", !.error = msg, !.currentPhase = "Error"]

\* Leaving process_videos: the frame is finished and the event loop is free.
Leave(j) == /\ drv' = [drv EXCEPT ![j].pc = "done"]
            /\ loop' = 0

\* CSVGenerator.get_existing_video_ids: the ids of all artifacts of the channel.
get_existing_video_ids(out) ==
  UNION {{out[f].rows[r].video_id : r \in 1..Len(out[f].rows)} :
           f \in {g \in DOMAIN out : out[g].exists}}

\* A dedup test that finds nothing.
IsExisting_Never(video_id, existing_video_ids) == FALSE

\* The dedup test of process_videos.
IsExisting(video_id, existing_video_ids) == video_id \in existing_video_ids

\* A run that ignores the requested count.
LimitVideos_Unlimited(videos, count) == videos

\* videos[:videosToProcess] when the limit is set and smaller than the list.
LimitVideos(videos, count) ==
  IF count # 0 /\ count < Len(videos) THEN SubSeq(videos, 1, count) ELSE videos

\* The status entry process_videos creates for a new video.
NewEntry(video) ==
  [id |-> video.video_id, status |-> "processing", currentStep |-> "Submitting to OpusClip",
   submission |-> "processing", transcript_step |-> "pending", csv |-> "pending",
   transcript |-> <<>>, opusProjectId |-> 0]

NewTask(idx) ==
  [idx |-> idx, phase |-> "created", start_time |-> 0, wake |-> 0, stage |-> "unknown",
   polls |-> 0, last |-> "none", completed |-> FALSE, fetched |-> <<>>, result |-> 0,
   resolvedAt |-> -1]

Running(t) == t.phase \in {"running", "inflight"}

RunningCount ==
  SumSeq([n \in 1..Cardinality(Jobs) |->
            Cardinality({k \in 1..Len(tasks[n]) : Running(tasks[n][k])})])

Callback(kind, j, k) == [kind |-> kind, job |-> j, k |-> k]

NextToRun(kind, j, k) == loop = 0 /\ ready # <<>> /\ Head(ready) = Callback(kind, j, k)

\* ------------------------------------------------------------ HTTP handlers
\* POST /api/process: create the job and schedule process_videos(job_id).
start_processing(j) ==
  /\ loop = 0
  /\ jobs_store[j] = NoJob
  /\ j <= env.requests
  /\ \A h \in Jobs : h < j => jobs_store[h] # NoJob
  /\ \E config \in env.configs :
       jobs_store' = [jobs_store EXCEPT ![j] =
         [status |-> "processing", progress |-> 0, currentPhase |-> "Initializing",
          videos |-> <<>>, config |-> config, summary |-> NoSummary, error |-> "none"]]
  /\ drv' = [drv EXCEPT ![j].pc = "queued"]
  /\ ready' = Append(ready, Callback("driver", j, 0))
  /\ UNCHANGED <<applied, env, tasks, loop, work_queue, now, output, training, svc>>

\* ------------------------------------------------------- process_videos driver
\* Lines 190-205: the driver starts and looks for the service credentials.
DriverBegin(j) ==
  /\ NextToRun("driver", j, 0)
  /\ drv[j].pc = "queued"
  /\ ready' = Tail(ready)
  /\ IF env.opus_api_key
       THEN /\ drv' = [drv EXCEPT ![j].pc = "parse"]
            /\ loop' = j
            /\ UNCHANGED jobs_store
       ELSE /\ jobs_store' = [jobs_store EXCEPT ![j] = Failed(@, "OPUSCLIP_API_KEY not found in environment variables")]
            /\ drv' = [drv EXCEPT ![j].pc = "done"]
            /\ loop' = 0
  /\ UNCHANGED <<applied, env, tasks, work_queue, now, output, training, svc>>

\* Lines 207-221: parse the uploaded file, apply the count limit.
DriverParse(j) ==
  /\ loop = j
  /\ drv[j].pc = "parse"
  /\ LET job == [jobs_store[j] EXCEPT !.currentPhase = "Parsing videos from JSON",
                                      !.progress = 5]
         videos == env.file_videos
     IN IF videos = <<>>
          THEN /\ jobs_store' = [jobs_store EXCEPT ![j] = Failed(job, "No videos found in JSON file")]
               /\ Leave(j)
          ELSE /\ jobs_store' = [jobs_store EXCEPT ![j] = job]
               /\ drv' = [drv EXCEPT ![j].pc = "dedup",
                                     ![j].videos = LimitVideos(videos, job.config.videosToProcess)]
               /\ UNCHANGED loop
  /\ UNCHANGED <<applied, env, tasks, ready, work_queue, now, output, training, svc>>

\* Lines 223-258: split the records into skipped and new ones.
DriverDedup(j) ==
  /\ loop = j
  /\ drv[j].pc = "dedup"
  /\ LET existing_video_ids == get_existing_video_ids(output)
         videos == drv[j].videos
         skipped_videos ==
           SelectIdx(videos, LAMBDA i : IsExisting(videos[i].video_id, existing_video_ids))
         new_videos ==
           SelectIdx(videos, LAMBDA i : ~IsExisting(videos[i].video_id, existing_video_ids))
     IN IF new_videos = <<>>
          THEN /\ jobs_store' = [jobs_store EXCEPT ![j] =
                    Completed(@, "Complete - All videos already processed",
                              [processed |-> 0, skipped |-> Len(skipped_videos)])]
               /\ drv' = [drv EXCEPT ![j].pc = "done", ![j].skipped_videos = skipped_videos]
               /\ loop' = 0
          ELSE /\ jobs_store' = [jobs_store EXCEPT ![j] =
                    [@ EXCEPT !.videos = <<>>, !.progress = 15,
                              !.currentPhase = "Submitting projects to OpusClip"]]
               /\ drv' = [drv EXCEPT ![j].pc = "submit", ![j].i = 0, ![j].b = 1,
                                     ![j].skipped_videos = skipped_videos,
                                     ![j].new_videos = new_videos]
               /\ UNCHANGED loop
  /\ UNCHANGED <<applied, env, tasks, ready, work_queue, now, output, training, svc>>

\* Lines 290-311: the status entry after submit_project answered or raised.
SubmitEntry(entry, outcome, project_id) ==
  CASE outcome = "handle" ->
         [entry EXCEPT !.opusProjectId = project_id, !.submission = "completed"]
    [] outcome = "no_handle" ->
         [entry EXCEPT !.status = "failed", !.submission = "failed",
                       !.currentStep = "Failed to submit"]
    [] outcome = "raise" ->
         [entry EXCEPT !.status = "failed", !.submission = "failed",
                       !.currentStep = "Error: submit_project"]

\* A submit loop that queues the record for polling whatever the response.
JoinsSubmissions_Always(outcome) == TRUE

\* Line 295-299: the record joins project_submissions when a handle came back.
JoinsSubmissions(outcome) == outcome = "handle"

\* Lines 263-292: the inner loop takes the video at offset b of the batch that
\* starts at i, appends its status entry and sends the submit request, which
\* blocks the event loop until it answers.
DriverSubmit(j) ==
  /\ loop = j
  /\ drv[j].pc = "submit"
  /\ jobs_store' = [jobs_store EXCEPT ![j].videos =
                      Append(@, NewEntry(drv[j].new_videos[drv[j].i + drv[j].b]))]
  /\ drv' = [drv EXCEPT ![j].pc = "submitting"]
  /\ UNCHANGED <<applied, env, tasks, loop, ready, work_queue, now, output, training, svc>>

\* A batch loop that steps one record too far.
NextBatch_SkipOne(i, batch_size) == i + batch_size + 1

\* Line 263: range(0, len(new_videos), batch_size) steps by the batch size.
NextBatch(i, batch_size) == i + batch_size

\* Lines 292-311: submit_project answered or raised; the loop goes on to the
\* next video of the batch, to the next batch, or ends.
DriverSubmitted(j) ==
  /\ loop = j
  /\ drv[j].pc = "submitting"
  /\ LET d == drv[j]
         n == Len(d.new_videos)
         batch_size == jobs_store[j].config.batchSize
         batch_end == Min(d.i + batch_size, n)
         idx == d.i + d.b
         video == d.new_videos[idx]
         project_id == Len(svc.submits) + 1
         last_of_batch == idx >= batch_end
         next_i == IF last_of_batch THEN NextBatch(d.i, batch_size) ELSE d.i
         next_b == IF last_of_batch THEN 1 ELSE d.b + 1
     IN \E outcome \in SubmitOutcomes :
          /\ jobs_store' = [jobs_store EXCEPT ![j].videos[idx] =
                              SubmitEntry(@, outcome, project_id)]
          /\ svc' = [svc EXCEPT !.submits = Append(@, [job |-> j, video_id |-> video.video_id,
                                                     idx |-> idx, outcome |-> outcome])]
          /\ drv' = [drv EXCEPT
                       ![j].new_videos[idx].project_id =
                          IF outcome = "handle" THEN project_id ELSE @,
                       ![j].project_submissions =
                          IF JoinsSubmissions(outcome) THEN Append(@, idx) ELSE @,
                       ![j].i = next_i, ![j].b = next_b,
                       ![j].pc = IF next_i >= n THEN "submitted" ELSE "submit"]
  /\ UNCHANGED <<applied, env, tasks, loop, ready, work_queue, now, output, training>>

\* A driver that goes on to the polling stage with nothing submitted.
NoSubmissions_Never(project_submissions) == FALSE

\* Line 313: `if not project_submissions:`.
NoSubmissions(project_submissions) == project_submissions = <<>>

\* Lines 313-320 and 398-400: no submission is fatal; otherwise one
\* wait_and_extract coroutine per submission is handed to asyncio.gather and
\* the driver suspends.
DriverGather(j) ==
  /\ loop = j
  /\ drv[j].pc = "submitted"
  /\ LET subs == drv[j].project_submissions
     IN IF NoSubmissions(subs)
          THEN /\ jobs_store' = [jobs_store EXCEPT ![j] =
                                   Failed(@, "No projects submitted successfully")]
               /\ Leave(j)
               /\ UNCHANGED <<tasks, ready>>
          ELSE /\ jobs_store' = [jobs_store EXCEPT ![j].progress = 20,
                                                   ![j].currentPhase = "Processing videos"]
               /\ tasks' = [tasks EXCEPT ![j] = [k \in 1..Len(subs) |-> NewTask(subs[k])]]
               /\ ready' = ready \o [k \in 1..Len(subs) |-> Callback("start", j, k)]
               /\ drv' = [drv EXCEPT ![j].pc = "gather"]
               /\ loop' = 0
  /\ UNCHANGED <<applied, env, work_queue, now, output, training, svc>>

\* A gather that returns as soon as one coroutine has finished.
AllDone_Any(ts) == \E n \in 1..Len(ts) : ts[n].phase = "done"

\* ------------------------------------------------------------ wait_and_extract
\* asyncio.gather returns when every coroutine has returned.
AllDone(ts) == \A n \in 1..Len(ts) : ts[n].phase = "done"

\* A coroutine that writes the first status entry of the job.
OwnEntry_First(t) == 1

\* Line 322: the status entry the coroutine was handed with its video.
OwnEntry(t) == t.idx

\* Lines 322-340: the coroutine marks its entry and hands the polling loop to
\* the default executor.
TaskStart(j, k) ==
  /\ NextToRun("start", j, k)
  /\ tasks[j][k].phase = "created"
  /\ IF drv[j].new_videos[tasks[j][k].idx].project_id = 0
       THEN LET ts == [tasks[j] EXCEPT ![k].phase = "done", ![k].resolvedAt = now]
            IN /\ tasks' = [tasks EXCEPT ![j] = ts]
               /\ ready' = IF AllDone(ts) THEN Append(Tail(ready), Callback("driver", j, 0))
                           ELSE Tail(ready)
               /\ UNCHANGED <<jobs_store, work_queue>>
       ELSE /\ ready' = Tail(ready)
            /\ jobs_store' = [jobs_store EXCEPT
                 ![j].videos[OwnEntry(tasks[j][k])] =
                    [@ EXCEPT !.currentStep = "Waiting for OpusClip processing",
                              !.transcript_step = "processing"]]
            /\ tasks' = [tasks EXCEPT ![j][k].phase = "queued"]
            /\ work_queue' = Append(work_queue, <<j, k>>)
  /\ UNCHANGED <<applied, env, drv, loop, now, output, training, svc>>

\* ------------------------------------------------------------- the thread pool
\* A free worker thread takes the oldest queued polling loop and enters
\* wait_for_project_completion (line 237: start_time = time.time()).
WorkerTake ==
  /\ work_queue # <<>>
  /\ RunningCount < env.max_workers
  /\ LET j == Head(work_queue)[1]
         k == Head(work_queue)[2]
     IN tasks' = [tasks EXCEPT ![j][k].phase = "running",
                               ![j][k].start_time = now, ![j][k].wake = now]
  /\ work_queue' = Tail(work_queue)
  /\ UNCHANGED <<applied, env, jobs_store, drv, loop, ready, now, output, training, svc>>

\* A loop that still polls when the elapsed time equals the timeout.
WithinTimeout_Inclusive(t, time) == time - t.start_time <= MaxWaitTicks

\* Line 239: the loop condition.
WithinTimeout(t, time) == time - t.start_time < MaxWaitTicks

\* A polling loop whose list of failure stages lacks STALLED.
StageVerdict_StalledSleeps(stage) ==
  IF stage = "COMPLETE" THEN "return_true"
  ELSE IF stage \in {"FAILED", "ERROR"} THEN "return_false"
  ELSE "sleep"

\* What the loop does with a stage (lines 249-260): return True, return
\* False, or sleep and poll again.
StageVerdict(stage) ==
  IF stage = "COMPLETE" THEN "return_true"
  ELSE IF stage \in FAILURE_STAGES THEN "return_false"
  ELSE "sleep"

\* Lines 239-241 and 270-272: the loop tests the elapsed time, then either
\* sends a status request or gives up with False.
ThreadPoll(j, k) ==
  /\ k \in 1..Len(tasks[j])
  /\ tasks[j][k].phase = "running"
  /\ tasks[j][k].wake <= now
  /\ IF WithinTimeout(tasks[j][k], now)
       THEN /\ \E d \in env.latencies :
                 tasks' = [tasks EXCEPT ![j][k].phase = "inflight",
                                        ![j][k].polls = @ + 1,
                                        ![j][k].wake = now + d]
            /\ UNCHANGED ready
       ELSE /\ tasks' = [tasks EXCEPT ![j][k].phase = "returned",
                                      ![j][k].completed = FALSE]
            /\ ready' = Append(ready, Callback("resume", j, k))
  /\ UNCHANGED <<applied, env, jobs_store, drv, loop, work_queue, now, output, training, svc>>

\* A polling loop that gives up when a status request raises.
PollVerdict_RaiseReturns(outcome) ==
  IF outcome = "raise" THEN "return_false" ELSE StageVerdict(outcome)

\* Lines 240-268: an exception of the status request is caught and the loop
\* sleeps as it does after a stage that is not terminal.
PollVerdict(outcome) ==
  IF outcome = "raise" THEN "sleep" ELSE StageVerdict(outcome)

\* Lines 241-268: the status request answers with a stage or raises.
ThreadResponse(j, k) ==
  /\ k \in 1..Len(tasks[j])
  /\ tasks[j][k].phase = "inflight"
  /\ tasks[j][k].wake <= now
  /\ \E outcome \in env.poll_outcomes :
       LET verdict == PollVerdict(outcome)
           stage == IF outcome = "raise" THEN tasks[j][k].stage ELSE outcome
       IN IF verdict = "sleep"
            THEN /\ tasks' = [tasks EXCEPT ![j][k].phase = "running",
                                           ![j][k].stage = stage,
                                           ![j][k].last = outcome,
                                           ![j][k].wake = now + 1]
                 /\ UNCHANGED ready
            ELSE /\ tasks' = [tasks EXCEPT ![j][k].phase = "returned",
                                           ![j][k].stage = stage,
                                           ![j][k].last = outcome,
                                           ![j][k].completed = (verdict = "return_true")]
                 /\ ready' = Append(ready, Callback("resume", j, k))
  /\ UNCHANGED <<applied, env, jobs_store, drv, loop, work_queue, now, output, training, svc>>

\* An extraction that looks for the first clip whose screenplay has text.
FirstClip_FirstUsable(exportable_clips) ==
  LET usable == {i \in 1..Len(exportable_clips) :
                   extract_enhanced_transcript_from_screenplay(
                     exportable_clips[i].screenplay) # <<>>}
  IN IF usable = {} THEN exportable_clips[1]
     ELSE exportable_clips[CHOOSE i \in usable : \A h \in usable : i <= h]

\* Line 363: the clip whose screenplay is used.
FirstClip(exportable_clips) == exportable_clips[1]

\* A wait_and_extract that returns the video whatever the transcript is.
HasTranscript_Always(transcript) == TRUE

\* Line 375: `if transcript:`.
HasTranscript(transcript) == transcript # <<>>

\* Lines 342-396: what wait_and_extract makes of the polling result and of the
\* fetched clips: the step label it leaves and the transcript, if any.
Extraction(completed, fetch) ==
  IF ~completed THEN [ok |-> FALSE, step |-> "Timeout waiting for OpusClip", transcript |-> <<>>]
  ELSE IF fetch.raised THEN [ok |-> FALSE, step |-> "Error: get_exportable_clips", transcript |-> <<>>]
  ELSE IF fetch.clips = <<>> THEN [ok |-> FALSE, step |-> "No clips found", transcript |-> <<>>]
  ELSE IF FirstClip(fetch.clips).screenplay.empty
    THEN [ok |-> FALSE, step |-> "No screenplay found", transcript |-> <<>>]
  ELSE LET transcript ==
             extract_enhanced_transcript_from_screenplay(FirstClip(fetch.clips).screenplay)
       IN IF HasTranscript(transcript)
            THEN [ok |-> TRUE, step |-> "Transcript extracted", transcript |-> transcript]
            ELSE [ok |-> FALSE, step |-> "Empty transcript", transcript |-> <<>>]

\* A wait_and_extract that records the failed step but not the failed item.
ExtractEntry_StepOnly(entry, x) ==
  IF x.ok
    THEN [entry EXCEPT !.transcript = x.transcript, !.transcript_step = "completed",
                       !.currentStep = x.step]
    ELSE [entry EXCEPT !.transcript_step = "failed", !.currentStep = x.step]

\* The status entry after wait_and_extract returned.
ExtractEntry(entry, x) ==
  IF x.ok
    THEN [entry EXCEPT !.transcript = x.transcript, !.transcript_step = "completed",
                       !.currentStep = x.step]
    ELSE [entry EXCEPT !.status = "failed", !.transcript_step = "failed",
                       !.currentStep = x.step]

\* An extraction that stores the transcript without saying where it is from.
ExtractVideo_Untagged(video, x) ==
  IF x.ok THEN [video EXCEPT !.transcript = x.transcript] ELSE video

\* The video dict after wait_and_extract returned.
ExtractVideo(video, x) ==
  IF x.ok
    THEN [video EXCEPT !.transcript = x.transcript, !.transcript_source = "opusclip"]
    ELSE video

\* An extraction step that lets the event loop run other callbacks while it
\* waits for the service.
HoldsLoop_Released(j) == 0

\* Lines 349-351: get_exportable_clips is an ordinary blocking call made from
\* the coroutine, so the event loop runs nothing else until it returns.
HoldsLoop(j) == j

\* Lines 342-351: the coroutine resumes with the polling result; it gives up
\* on a project that did not complete, and otherwise asks the service for the
\* exportable clips of the project.
TaskResume(j, k) ==
  /\ NextToRun("resume", j, k)
  /\ tasks[j][k].phase = "returned"
  /\ LET t == tasks[j][k]
         x == Extraction(FALSE, [raised |-> FALSE, clips |-> <<>>])
         ts == [tasks[j] EXCEPT ![k].phase = "done", ![k].resolvedAt = now]
     IN IF t.completed
          THEN /\ jobs_store' = [jobs_store EXCEPT ![j].videos[OwnEntry(t)].currentStep =
                                   "Extracting transcript from clips"]
               /\ tasks' = [tasks EXCEPT ![j][k].phase = "extracting"]
               /\ loop' = HoldsLoop(j)
               /\ ready' = Tail(ready)
          ELSE /\ jobs_store' = [jobs_store EXCEPT ![j].videos[OwnEntry(t)] =
                                   ExtractEntry(@, x)]
               /\ tasks' = [tasks EXCEPT ![j] = ts]
               /\ loop' = loop
               /\ ready' = IF AllDone(ts) THEN Append(Tail(ready), Callback("driver", j, 0))
                           ELSE Tail(ready)
  /\ UNCHANGED <<applied, env, drv, work_queue, now, output, training, svc>>

\* Lines 351-396: the service answered or the call raised; the transcript of
\* the first clip is extracted and the coroutine returns.
TaskExtract(j, k) ==
  /\ k <= Len(tasks[j])
  /\ tasks[j][k].phase = "extracting"
  /\ LET t == tasks[j][k]
     IN \E fetch \in env.fetch_outcomes :
          LET x == Extraction(TRUE, fetch)
              ts == [tasks[j] EXCEPT ![k].phase = "done",
                                     ![k].fetched = <<fetch>>,
                                     ![k].result = IF x.ok THEN t.idx ELSE 0,
                                     ![k].resolvedAt = now]
          IN /\ jobs_store' = [jobs_store EXCEPT ![j].videos[OwnEntry(t)] = ExtractEntry(@, x)]
             /\ drv' = [drv EXCEPT ![j].new_videos[t.idx] = ExtractVideo(@, x)]
             /\ svc' = [svc EXCEPT !.fetches = Append(@, <<j, t.idx>>)]
             /\ tasks' = [tasks EXCEPT ![j] = ts]
             /\ ready' = IF AllDone(ts) THEN Append(ready, Callback("driver", j, 0))
                         ELSE ready
             /\ loop' = 0
  /\ UNCHANGED <<applied, env, work_queue, now, output, training>>

\* A gather that hands the results back last coroutine first.
GatherResults_Reversed(ts) == [n \in 1..Len(ts) |-> ts[Len(ts) + 1 - n].result]

\* Line 400: asyncio.gather returns one result per coroutine, in the order
\* the coroutines were passed in, whatever order they finished in.
GatherResults(ts) == [n \in 1..Len(ts) |-> ts[n].result]

\* A collection step that drops every result when one coroutine failed.
Successful_AllOrNothing(ts) ==
  IF \E n \in 1..Len(ts) : ts[n].result = 0 THEN <<>>
  ELSE [n \in 1..Len(ts) |-> ts[n].result]

\* Line 403: the results that are neither None nor an exception, in the order
\* asyncio.gather returns them (the order of the coroutines).
Successful(ts) ==
  LET results == GatherResults(ts)
  IN SelectIdx(results, LAMBDA n : results[n] # 0)

\* An update loop that marks every entry completed.
MarkCompleted_All(entry) ==
  [entry EXCEPT !.status = "completed", !.currentStep = "None", !.csv = "completed"]

\* Lines 410-415: entries with an extracted transcript become completed.
MarkCompleted(entry) ==
  IF entry.transcript_step = "completed"
    THEN [entry EXCEPT !.status = "completed", !.currentStep = "None", !.csv = "completed"]
    ELSE entry

\* Lines 400-417: gather returned; no transcript at all is fatal.
DriverCollect(j) ==
  /\ NextToRun("driver", j, 0)
  /\ drv[j].pc = "gather"
  /\ ready' = Tail(ready)
  /\ LET videos_with_transcripts == Successful(tasks[j])
     IN IF videos_with_transcripts = <<>>
          THEN /\ jobs_store' = [jobs_store EXCEPT ![j] =
                                   Failed(@, "No transcripts extracted successfully")]
               /\ drv' = [drv EXCEPT ![j].pc = "done"]
               /\ loop' = 0
          ELSE /\ jobs_store' = [jobs_store EXCEPT
                    ![j].videos = [n \in 1..Len(@) |-> MarkCompleted(@[n])],
                    ![j].progress = 70]
               /\ drv' = [drv EXCEPT ![j].pc = "csv",
                                     ![j].videos_with_transcripts = videos_with_transcripts]
               /\ loop' = j
  /\ UNCHANGED <<applied, env, tasks, work_queue, now, output, training, svc>>

\* An artifact step that writes a row for every submitted record.
CsvRows_AllNew(d) == [n \in 1..Len(d.new_videos) |-> prepare_row(d.new_videos[n])]

\* CSVGenerator.generate_csv: one row per video, in list order.
CsvRows(d) ==
  [n \in 1..Len(d.videos_with_transcripts) |->
     prepare_row(d.new_videos[d.videos_with_transcripts[n]])]

\* Lines 419-431: write the tabular artifact.
DriverCsv(j) ==
  /\ loop = j
  /\ drv[j].pc = "csv"
  /\ LET rows == CsvRows(drv[j])
         job == [jobs_store[j] EXCEPT !.currentPhase = "Generating CSV file"]
     IN \E w \in WriteOutcomes :
          CASE w = "ok" ->
                 /\ output' = [output EXCEPT ![j] = File(rows)]
                 /\ jobs_store' = [jobs_store EXCEPT ![j] = [job EXCEPT !.progress = 80]]
                 /\ drv' = [drv EXCEPT ![j].pc = "llm"]
                 /\ UNCHANGED loop
            [] w = "raise" ->
                 /\ UNCHANGED output
                 /\ jobs_store' = [jobs_store EXCEPT ![j] = Failed(job, "generate_csv")]
                 /\ Leave(j)
            [] w = "raise_partial" ->
                 /\ \E m \in 0..(Len(rows) - 1) :
                      output' = [output EXCEPT ![j] = File(SubSeq(rows, 1, m))]
                 /\ jobs_store' = [jobs_store EXCEPT ![j] = Failed(job, "generate_csv")]
                 /\ Leave(j)
  /\ UNCHANGED <<applied, env, tasks, ready, work_queue, now, training, svc>>

\* An analysis that falls back to the default length when it fails.
Suggestion_ResetLength(config, llm) ==
  IF llm.kind = "object"
    THEN [language |-> IF llm.language = "absent" THEN config.language ELSE llm.language,
          max_char |-> IF llm.max_char = 0 THEN config.maxChar ELSE llm.max_char]
    ELSE [language |-> config.language, max_char |-> 150]

\* Lines 436-437 and 497-498: the parameters start as the values of the
\* request and are replaced by those of a response that parsed to an object;
\* every exception before that leaves both as they were.
Suggestion(config, llm) ==
  IF llm.kind = "object"
    THEN [language |-> IF llm.language = "absent" THEN config.language ELSE llm.language,
          max_char |-> IF llm.max_char = 0 THEN config.maxChar ELSE llm.max_char]
    ELSE [language |-> config.language, max_char |-> config.maxChar]

\* Lines 433-505: the optional analysis of the written rows.
DriverLlm(j) ==
  /\ loop = j
  /\ drv[j].pc = "llm"
  /\ LET config == jobs_store[j].config
         outcomes == IF config.parameterMode # "auto" THEN {NotAsked}
                     ELSE IF ~env.openai_api_key THEN {NoKey}
                     ELSE LlmAnswers
     IN \E llm \in outcomes :
          drv' = [drv EXCEPT ![j].pc = "jsonl",
                             ![j].analysis = llm,
                             ![j].suggested_language = Suggestion(config, llm).language,
                             ![j].suggested_max_char = Suggestion(config, llm).max_char]
  /\ jobs_store' = [jobs_store EXCEPT ![j].currentPhase = "Analyzing content with AI",
                                      ![j].progress = 85]
  /\ UNCHANGED <<applied, env, tasks, loop, ready, work_queue, now, output, training, svc>>

\* JSONLConverter.convert_csv_to_jsonl: one example per row with a transcript.
NumExamples(rows) ==
  Cardinality({r \in 1..Len(rows) : Strip(rows[r].transcript) # <<>>})

\* A summary that counts every record without a transcript as skipped.
Summary_FailuresAsSkipped(d) ==
  [processed |-> Len(d.videos_with_transcripts),
   skipped |-> Len(d.videos) - Len(d.videos_with_transcripts)]

\* Lines 536-541: the counts of the final summary.
Summary(d) ==
  [processed |-> Len(d.videos_with_transcripts), skipped |-> Len(d.skipped_videos)]

\* Lines 507-543: write the training file and complete the run.
DriverJsonl(j) ==
  /\ loop = j
  /\ drv[j].pc = "jsonl"
  /\ LET job == [jobs_store[j] EXCEPT !.currentPhase = "Converting to JSONL training data"]
     IN \E w \in {"ok", "raise"} :
          IF w = "ok"
            THEN /\ training' = [training EXCEPT ![j] = NumExamples(output[j].rows)]
                 /\ jobs_store' = [jobs_store EXCEPT ![j] =
                      Completed(job, "Complete", Summary(drv[j]))]
            ELSE /\ UNCHANGED training
                 /\ jobs_store' = [jobs_store EXCEPT ![j] = Failed(job, "convert_csv_to_jsonl")]
  /\ drv' = [drv EXCEPT ![j].pc = "done",
                        ![j].converter = [language |-> drv[j].suggested_language,
                                          max_char |-> drv[j].suggested_max_char]]
  /\ loop' = 0
  /\ UNCHANGED <<applied, env, tasks, ready, work_queue, now, output, svc>>

\* ----------------------------------------------------------------------- time
AllTasks == {<<j, k>> : j \in Jobs, k \in 1..MaxVideos}

Live == {jk \in AllTasks : jk[2] <= Len(tasks[jk[1]]) /\ Running(tasks[jk[1]][jk[2]])}

\* Time passes while the event loop has nothing to run and every polling loop
\* that a worker runs is asleep or waiting for the service.
Tick ==
  /\ loop = 0
  /\ ready = <<>>
  /\ Live # {}
  /\ \A jk \in Live : tasks[jk[1]][jk[2]].wake > now
  /\ ~(work_queue # <<>> /\ RunningCount < env.max_workers)
  /\ now' = now + 1
  /\ UNCHANGED <<applied, env, jobs_store, drv, tasks, loop, ready, work_queue, output, training, svc>>

Next ==
  \/ \E j \in Jobs : start_processing(j)
  \/ \E j \in Jobs : DriverBegin(j)
  \/ \E j \in Jobs : DriverParse(j)
  \/ \E j \in Jobs : DriverDedup(j)
  \/ \E j \in Jobs : DriverSubmit(j)
  \/ \E j \in Jobs : DriverSubmitted(j)
  \/ \E j \in Jobs : DriverGather(j)
  \/ \E j \in Jobs, k \in 1..MaxVideos : TaskStart(j, k)
  \/ WorkerTake
  \/ \E j \in Jobs, k \in 1..MaxVideos : ThreadPoll(j, k)
  \/ \E j \in Jobs, k \in 1..MaxVideos : ThreadResponse(j, k)
  \/ \E j \in Jobs, k \in 1..MaxVideos : TaskResume(j, k)
  \/ \E j \in Jobs, k \in 1..MaxVideos : TaskExtract(j, k)
  \/ \E j \in Jobs : DriverCollect(j)
  \/ \E j \in Jobs : DriverCsv(j)
  \/ \E j \in Jobs : DriverLlm(j)
  \/ \E j \in Jobs : DriverJsonl(j)
  \/ Tick

Spec == Init /\ [][Next]_vars

SpecRuns == InitRuns /\ [][Next]_vars

SpecPoll == InitPoll /\ [][Next]_vars

SpecLimit == InitLimit /\ [][Next]_vars

SpecRetry == InitRetry /\ [][Next]_vars

\* The same run when nothing stalls: a worker thread that can take a step
\* takes it, every status request returns (line 145: timeout=30) and every
\* sleep ends.
SpecPollFair == SpecPoll /\ WF_vars(Next)

SpecBatch == InitBatch /\ [][Next]_vars

SpecExtract == InitExtract /\ [][Next]_vars

SpecLlm == InitLlm /\ [][Next]_vars

\* ============================================================ command line
\* main_json.py runs the same pipeline as one process: asyncio.run drives
\* process_json_file, which has no job state and no per-item status entries.
CliRun == 1

\* The arguments of the command line: all records, the default batch size.
CliArgs == [count |-> 0, batch_size |-> 10]

\* The command was started with a credential, in a directory that may hold
\* an artifact of an earlier run of the channel.
InitCli == Started(0, {TRUE}, PoolSizes, {0}, 0..MaxVideos)

\* process_json_file, lines 248-278: parse the file, apply --count and hand
\* the records to process_videos_with_opusclip.
CliParse ==
  /\ loop = 0
  /\ drv[CliRun].pc = "none"
  /\ LET videos == env.file_videos
     IN IF videos = <<>>
          THEN drv' = [drv EXCEPT ![CliRun].pc = "done"] /\ UNCHANGED loop
          ELSE /\ drv' = [drv EXCEPT ![CliRun].pc = "submit", ![CliRun].i = 0, ![CliRun].b = 1,
                                     ![CliRun].videos = LimitVideos(videos, CliArgs.count),
                                     ![CliRun].new_videos = LimitVideos(videos, CliArgs.count)]
               /\ loop' = CliRun
  /\ UNCHANGED <<applied, env, jobs_store, tasks, ready, work_queue, now, output, training, svc>>

\* process_videos_with_opusclip, lines 359-377: one pass of the inner loop.
CliSubmit ==
  /\ loop = CliRun
  /\ drv[CliRun].pc = "submit"
  /\ LET d == drv[CliRun]
         n == Len(d.new_videos)
         batch_end == Min(d.i + CliArgs.batch_size, n)
         idx == d.i + d.b
         project_id == Len(svc.submits) + 1
         last_of_batch == idx >= batch_end
         next_i == IF last_of_batch THEN d.i + CliArgs.batch_size ELSE d.i
         next_b == IF last_of_batch THEN 1 ELSE d.b + 1
     IN \E outcome \in SubmitOutcomes :
          /\ svc' = [svc EXCEPT !.submits =
                       Append(@, [job |-> CliRun, video_id |-> d.new_videos[idx].video_id,
                                  idx |-> idx, outcome |-> outcome])]
          /\ drv' = [drv EXCEPT
                       ![CliRun].new_videos[idx].project_id =
                          IF outcome = "handle" THEN project_id ELSE @,
                       ![CliRun].project_submissions =
                          IF outcome = "handle" THEN Append(@, idx) ELSE @,
                       ![CliRun].i = next_i, ![CliRun].b = next_b,
                       ![CliRun].pc = IF next_i >= n THEN "submitted" ELSE "submit"]
  /\ UNCHANGED <<applied, env, jobs_store, tasks, loop, ready, work_queue, now, output, training>>

\* Lines 379-381 and 463-465: with no submission the function returns [] and
\* process_json_file exits; otherwise the coroutines go to asyncio.gather.
CliGather ==
  /\ loop = CliRun
  /\ drv[CliRun].pc = "submitted"
  /\ LET subs == drv[CliRun].project_submissions
     IN IF subs = <<>>
          THEN Leave(CliRun) /\ UNCHANGED <<tasks, ready>>
          ELSE /\ tasks' = [tasks EXCEPT ![CliRun] = [k \in 1..Len(subs) |-> NewTask(subs[k])]]
               /\ ready' = ready \o [k \in 1..Len(subs) |-> Callback("start", CliRun, k)]
               /\ drv' = [drv EXCEPT ![CliRun].pc = "gather"]
               /\ loop' = 0
  /\ UNCHANGED <<applied, env, jobs_store, work_queue, now, output, training, svc>>

\* Lines 387-406: the coroutine hands its polling loop to the default executor.
CliTaskStart(k) ==
  /\ NextToRun("start", CliRun, k)
  /\ tasks[CliRun][k].phase = "created"
  /\ IF drv[CliRun].new_videos[tasks[CliRun][k].idx].project_id = 0
       THEN LET ts == [tasks[CliRun] EXCEPT ![k].phase = "done", ![k].resolvedAt = now]
            IN /\ tasks' = [tasks EXCEPT ![CliRun] = ts]
               /\ ready' = IF AllDone(ts)
                             THEN Append(Tail(ready), Callback("driver", CliRun, 0))
                             ELSE Tail(ready)
               /\ UNCHANGED work_queue
       ELSE /\ ready' = Tail(ready)
            /\ tasks' = [tasks EXCEPT ![CliRun][k].phase = "queued"]
            /\ work_queue' = Append(work_queue, <<CliRun, k>>)
  /\ UNCHANGED <<applied, env, jobs_store, drv, loop, now, output, training, svc>>

\* Lines 408-461: what the coroutine makes of the polling result and of the
\* fetched clips; the transcript is the verbal text of the first clip.
CliExtraction(completed, fetch) ==
  IF ~completed \/ fetch.raised \/ fetch.clips = <<>> THEN [ok |-> FALSE, transcript |-> <<>>]
  ELSE IF FirstClip(fetch.clips).screenplay.empty THEN [ok |-> FALSE, transcript |-> <<>>]
  ELSE LET transcript == extract_transcript_from_screenplay(FirstClip(fetch.clips).screenplay)
       IN [ok |-> transcript # <<>>, transcript |-> transcript]

\* Lines 408-461: the coroutine resumes with the polling result.
CliTaskResume(k) ==
  /\ NextToRun("resume", CliRun, k)
  /\ tasks[CliRun][k].phase = "returned"
  /\ LET t == tasks[CliRun][k]
     IN \E fetch \in FetchOutcomes :
          LET x == CliExtraction(t.completed, fetch)
              ts == [tasks[CliRun] EXCEPT ![k].phase = "done",
                                          ![k].result = IF x.ok THEN t.idx ELSE 0,
                                          ![k].resolvedAt = now]
          IN /\ t.completed \/ fetch = [raised |-> TRUE, clips |-> <<>>]
             /\ drv' = [drv EXCEPT ![CliRun].new_videos[t.idx] = ExtractVideo(@, x)]
             /\ svc' = [svc EXCEPT !.fetches =
                          IF t.completed THEN Append(@, <<CliRun, t.idx>>) ELSE @]
             /\ tasks' = [tasks EXCEPT ![CliRun] = ts]
             /\ ready' = IF AllDone(ts)
                           THEN Append(Tail(ready), Callback("driver", CliRun, 0))
                           ELSE Tail(ready)
  /\ UNCHANGED <<applied, env, jobs_store, loop, work_queue, now, output, training>>

\* Lines 465-471 and 280-284: gather returned; without a transcript
\* process_json_file exits.
CliCollect ==
  /\ NextToRun("driver", CliRun, 0)
  /\ drv[CliRun].pc = "gather"
  /\ ready' = Tail(ready)
  /\ LET valid_results == Successful(tasks[CliRun])
     IN IF valid_results = <<>>
          THEN drv' = [drv EXCEPT ![CliRun].pc = "done"] /\ loop' = 0
          ELSE /\ drv' = [drv EXCEPT ![CliRun].pc = "csv",
                                     ![CliRun].videos_with_transcripts = valid_results]
               /\ loop' = CliRun
  /\ UNCHANGED <<applied, env, jobs_store, tasks, work_queue, now, output, training, svc>>

\* Lines 291-293: write the tabular artifact; an exception ends the process.
CliCsv ==
  /\ loop = CliRun
  /\ drv[CliRun].pc = "csv"
  /\ LET rows == CsvRows(drv[CliRun])
     IN \E w \in WriteOutcomes :
          CASE w = "ok" ->
                 /\ output' = [output EXCEPT ![CliRun] = File(rows)]
                 /\ drv' = [drv EXCEPT ![CliRun].pc = "jsonl"]
                 /\ UNCHANGED loop
            [] w = "raise" ->
                 UNCHANGED output /\ Leave(CliRun)
            [] w = "raise_partial" ->
                 /\ \E m \in 0..(Len(rows) - 1) :
                      output' = [output EXCEPT ![CliRun] = File(SubSeq(rows, 1, m))]
                 /\ Leave(CliRun)
  /\ UNCHANGED <<applied, env, jobs_store, tasks, ready, work_queue, now, training, svc>>

\* Lines 299-334: choose the parameters and write the training file.
CliJsonl ==
  /\ loop = CliRun
  /\ drv[CliRun].pc = "jsonl"
  /\ \E w \in {"ok", "raise"} :
       training' = IF w = "ok"
                     THEN [training EXCEPT ![CliRun] = NumExamples(output[CliRun].rows)]
                     ELSE training
  /\ Leave(CliRun)
  /\ UNCHANGED <<applied, env, jobs_store, tasks, ready, work_queue, now, output, svc>>

NextCli ==
  \/ CliParse
  \/ CliSubmit
  \/ CliGather
  \/ \E k \in 1..MaxVideos : CliTaskStart(k)
  \/ WorkerTake
  \/ \E k \in 1..MaxVideos : ThreadPoll(CliRun, k)
  \/ \E k \in 1..MaxVideos : ThreadResponse(CliRun, k)
  \/ \E k \in 1..MaxVideos : CliTaskResume(k)
  \/ CliCollect
  \/ CliCsv
  \/ CliJsonl
  \/ Tick

SpecCli == InitCli /\ [][NextCli]_vars

\* ==================================================== transcript extraction
\* get_verbal_transcript and get_enhanced_transcript applied to chapter lists
\* of every shape the service can send.
\* Number of chapters of a screenplay.
MaxChapters == 2
\* Number of lines of a chapter.
MaxLines == 1

SeqsUpTo(S, n) == UNION {[1..m -> S] : m \in 0..n}

\* A line whose type is neither verbal nor visual.
Other(c) == [type |-> "other", content |-> c]

\* Lines: plain and padded verbal content, visual content, another type,
\* empty and blank content.
LineKinds ==
  {Verbal(<<"a">>), Verbal(<<" ", "b", " ">>), Visual(<<"c">>), Other(<<"d">>),
   Verbal(<<>>), Visual(<<" ">>)}

\* chapter.get('summary', ''): absent, or a padded text.
Summaries == {<<>>, <<"s", " ">>}

ChapterLists ==
  SeqsUpTo({[summary |-> sm, lines |-> ls] :
              sm \in Summaries, ls \in SeqsUpTo(LineKinds, MaxLines)}, MaxChapters)

\* The pipeline is not running.
Idle ==
  /\ env = [opus_api_key |-> TRUE, max_workers |-> 1, latencies |-> {0},
            requests |-> 0, file_videos |-> <<>>, configs |-> Configs,
            fetch_outcomes |-> FetchOutcomes, openai_api_key |-> FALSE,
            poll_outcomes |-> PollOutcomes]
  /\ jobs_store = [j \in Jobs |-> NoJob]
  /\ drv = [j \in Jobs |-> InitDrv]
  /\ tasks = [j \in Jobs |-> <<>>]
  /\ loop = 0
  /\ ready = <<>>
  /\ work_queue = <<>>
  /\ now = 0
  /\ output = [f \in {0} \cup Jobs |-> NoFile]
  /\ training = [j \in Jobs |-> -1]
  /\ svc = [submits |-> <<>>, fetches |-> <<>>]

InitText ==
  /\ Idle
  /\ \E chapters \in ChapterLists :
       applied = [fn |-> "transcript", chapters |-> chapters,
                  plain |-> <<>>, enhanced |-> <<>>, done |-> FALSE]

\* Both extraction functions are applied to the chapters.
Transcribe ==
  /\ applied.fn = "transcript"
  /\ ~applied.done
  /\ applied' = [applied EXCEPT !.plain = get_verbal_transcript(applied.chapters),
                                !.enhanced = get_enhanced_transcript(applied.chapters),
                                !.done = TRUE]
  /\ UNCHANGED <<env, jobs_store, drv, tasks, loop, ready, work_queue, now, output,
                 training, svc>>

NextText == Transcribe

SpecText == InitText /\ [][NextText]_vars

\* ============================================================== normalizer
\* TikTokJSONProcessor.process_json_file applied to documents that hold an
\* item list and, possibly, one more dict with an id outside the list.  A
\* record remembers the position of the raw item it was built from (the
\* identity of the dict that parse_video_metadata creates); 0 for a record
\* of the fallback.
\* Number of raw items of a document.
MaxItems == 3

\* stats without a playCount.
NoCount == -1

\* Raw items: id absent (""), or one of two identifiers; playCount absent or a
\* number; author an object, or null.
RawItems ==
  {[id |-> id, playCount |-> c, author |-> a] :
     id \in {"", "v1", "v2"}, c \in {NoCount, 1, 2}, a \in {"dict", "null"}}

ItemLists == SeqsUpTo(RawItems, MaxItems)

\* json_data: the item list, and whether a dict outside it has an id of 15
\* characters or more.
Documents == {[itemList |-> l, elsewhere |-> e] : l \in ItemLists, e \in BOOLEAN}

\* author.get raises on an author that is null; the item is skipped.
Parses(item) == item.author = "dict"

\* stats.get('playCount', 0)
ViewCount(item) == IF item.playCount = NoCount THEN 0 ELSE item.playCount

video_info(item_list, i) ==
  [video_id |-> item_list[i].id, view_count |-> ViewCount(item_list[i]), item |-> i]

\* Every id of 15 characters or more found anywhere in the document; the
\* identifiers of the modelled items are shorter.
extract_video_ids(json_data) == IF json_data.elsewhere THEN <<"v3">> ELSE <<>>

\* The fallback builds records without a view count.
parse_video_metadata(json_data) ==
  LET item_list == json_data.itemList
      video_ids == extract_video_ids(json_data)
      kept == SelectIdx([i \in 1..Len(item_list) |-> i],
                        LAMBDA i : Parses(item_list[i]))
  IN  IF item_list = <<>>
      THEN [n \in 1..Len(video_ids) |->
              [video_id |-> video_ids[n], view_count |-> NoCount, item |-> 0]]
      ELSE [n \in 1..Len(kept) |-> video_info(item_list, kept[n])]

seen_ids(unique_videos) == {unique_videos[i].video_id : i \in 1..Len(unique_videos)}

IsNew_NoSeen(video, unique_videos) == video.video_id # ""

\* if video_id and video_id not in seen_ids
IsNew(video, unique_videos) ==
  video.video_id # "" /\ video.video_id \notin seen_ids(unique_videos)

RECURSIVE Deduplicate(_)
Deduplicate(videos) ==
  IF videos = <<>> THEN <<>>
  ELSE LET unique_videos == Deduplicate(SubSeq(videos, 1, Len(videos) - 1))
           video == videos[Len(videos)]
       IN  IF IsNew(video, unique_videos) THEN Append(unique_videos, video)
           ELSE unique_videos

\* x.get('view_count', 0)
SortKey(video) == IF video.view_count = NoCount THEN 0 ELSE video.view_count

Before_Equal(a, b) == SortKey(a) > SortKey(b)

\* a stays ahead of b in a stable descending sort when b comes later.
Before(a, b) == SortKey(a) >= SortKey(b)

\* list.sort(key=view_count, reverse=True): stable, descending.
RECURSIVE SortByViews(_)
SortByViews(videos) ==
  IF videos = <<>> THEN <<>>
  ELSE LET sorted == SortByViews(SubSeq(videos, 1, Len(videos) - 1))
           video == videos[Len(videos)]
           k == Cardinality({i \in 1..Len(sorted) : Before(sorted[i], video)})
       IN  SubSeq(sorted, 1, k) \o <<video>> \o SubSeq(sorted, k + 1, Len(sorted))

process_json_file(json_data) == SortByViews(Deduplicate(parse_video_metadata(json_data)))

InitNormalize ==
  /\ Idle
  /\ \E json_data \in Documents :
       applied = [fn |-> "normalize", json_data |-> json_data,
                  videos |-> <<>>, done |-> FALSE]

\* The Normalizer is applied to the document.
Normalize ==
  /\ applied.fn = "normalize"
  /\ ~applied.done
  /\ applied' = [applied EXCEPT !.videos = process_json_file(applied.json_data),
                                !.done = TRUE]
  /\ UNCHANGED <<env, jobs_store, drv, tasks, loop, ready, work_queue, now, output,
                 training, svc>>

NextNormalize == Normalize

SpecNormalize == InitNormalize /\ [][NextNormalize]_vars

\* =============================================================== dedup gate
\* CSVGenerator.get_existing_video_ids applied to the files that its glob
\* pattern matched, in any state a file on disk can be in.
\* Number of data rows of a prior artifact.
MaxRows == 2

\* Number of files the pattern matches.
MaxFiles == 2

\* Cells of the video_id column: an id, a padded id, an empty cell.
IdCells == {<<"1">>, <<"2", " ">>, <<>>}

\* A file that open() or the header line raises on; a file without a
\* video_id column; a file with the column whose reading raises at row
\* raises_at (a decoding or csv error), or never (0).
CsvFiles ==
  {[opens |-> FALSE, header |-> TRUE, cells |-> <<<<"1">>>>, raises_at |-> 0]}
    \cup {[opens |-> TRUE, header |-> FALSE, cells |-> c, raises_at |-> 0] :
            c \in SeqsUpTo(IdCells, MaxRows)}
    \cup UNION {{[opens |-> TRUE, header |-> TRUE, cells |-> c, raises_at |-> e] :
                   e \in 0..Len(c)} : c \in SeqsUpTo(IdCells, MaxRows)}

\* A reader that gives up a file as a whole when reading it raises.
RowsRead_None(csv_file) ==
  IF csv_file.raises_at = 0 THEN Len(csv_file.cells) ELSE 0

\* Lines 170-173: the rows the loop body ran for before the exception, if
\* any, left the loop.
RowsRead(csv_file) ==
  IF csv_file.raises_at = 0 THEN Len(csv_file.cells) ELSE csv_file.raises_at - 1

\* Lines 160-177: what one file adds to existing_ids.
FileIds(csv_file) ==
  IF ~csv_file.opens \/ ~csv_file.header THEN {}
  ELSE {Strip(csv_file.cells[r]) : r \in 1..RowsRead(csv_file)} \ {<<>>}

\* Lines 145-179, on the list csv_files of the files that match the pattern.
existing_ids(csv_files) == UNION {FileIds(csv_files[f]) : f \in 1..Len(csv_files)}

InitDedup ==
  /\ Idle
  /\ \E csv_files \in SeqsUpTo(CsvFiles, MaxFiles) :
       applied = [fn |-> "dedup", csv_files |-> csv_files, existing_ids |-> {},
                  done |-> FALSE]

\* The gate is called for the channel.
Dedup ==
  /\ applied.fn = "dedup"
  /\ ~applied.done
  /\ applied' = [applied EXCEPT !.existing_ids = existing_ids(applied.csv_files),
                                !.done = TRUE]
  /\ UNCHANGED <<env, jobs_store, drv, tasks, loop, ready, work_queue, now, output,
                 training, svc>>

NextDedup == Dedup

SpecDedup == InitDedup /\ [][NextDedup]_vars

\* ============================================================ channel pattern
\* The files of the output directory that get_existing_video_ids reads for a
\* channel. Names are sequences of characters; ".csv" is one element.
\* Channel names (the uploaded filename without .json).
ChannelNames == {<<"c">>, <<"c", "_", "x">>, <<"d">>}

\* server.py line 422-423: the name of the artifact a run writes for a
\* channel, with the timestamp %Y%m%d_%H%M%S.
CsvName(channel_name) == channel_name \o <<"_", "2", "_", "1", ".csv">>

\* Lines 152-153: glob of {channel_name}_*.csv, where * matches any run of
\* characters, an empty one included.
GlobMatches(channel_name, name) ==
  /\ Len(name) >= Len(channel_name) + 2
  /\ SubSeq(name, 1, Len(channel_name) + 1) = channel_name \o <<"_">>
  /\ name[Len(name)] = ".csv"

\* Lines 145-179 for readable files: the ids of the files the pattern matches.
channel_ids(channel_name, files) ==
  UNION {f.ids : f \in {g \in files : GlobMatches(channel_name, g.name)}}

\* An output directory holding artifacts that runs wrote for some channels.
InitGate ==
  /\ Idle
  /\ \E channel_name \in ChannelNames :
       \E written \in SUBSET (ChannelNames \X {"1", "2"}) :
         applied = [fn |-> "gate", channel_name |-> channel_name,
                    files |-> {[written_for |-> c, name |-> CsvName(c),
                                ids |-> {w[2] : w \in {v \in written : v[1] = c}}]
                                 : c \in {w[1] : w \in written}},
                    existing_ids |-> {}, done |-> FALSE]

\* The gate is called for the channel.
Gate ==
  /\ applied.fn = "gate"
  /\ ~applied.done
  /\ applied' = [applied EXCEPT
                   !.existing_ids = channel_ids(applied.channel_name, applied.files),
                   !.done = TRUE]
  /\ UNCHANGED <<env, jobs_store, drv, tasks, loop, ready, work_queue, now, output,
                 training, svc>>

SpecGate == InitGate /\ [][Gate]_vars

\* ================================================================== uploads
\* POST /api/upload and the lookup of POST /api/process. uploaded_files is a
\* dict keyed by a fresh uuid: a sequence in insertion order, the position
\* standing for the file id.
\* Number of upload requests and of process requests.
MaxUploads == 3

\* A lookup that takes the latest upload of the name.
FirstUpload_Latest(uploaded_files, filename) ==
  LET hits == {i \in 1..Len(uploaded_files) : uploaded_files[i].filename = filename}
  IN IF hits = {} THEN 0 ELSE CHOOSE i \in hits : \A h \in hits : h <= i

\* Lines 149-155: the first entry, in insertion order, whose filename is the
\* requested one; 0 when there is none.
FirstUpload(uploaded_files, filename) ==
  LET hits == {i \in 1..Len(uploaded_files) : uploaded_files[i].filename = filename}
  IN IF hits = {} THEN 0 ELSE CHOOSE i \in hits : \A h \in hits : i <= h

InitUpload ==
  /\ Idle
  /\ applied = [fn |-> "uploads", uploaded_files |-> <<>>, jobs |-> <<>>, requests |-> 0,
                code |-> 0]

\* Lines 78-142: a file that parses as JSON is saved under its own path and
\* registered; one that does not is answered with an error.
upload_file ==
  /\ applied.fn = "uploads"
  /\ applied.requests < MaxUploads
  /\ \E filename \in {"a.json", "b.json"}, content \in {"v1", "v2", "invalid"} :
       applied' =
         IF content = "invalid"
           THEN [applied EXCEPT !.requests = @ + 1, !.code = 400]
           ELSE [applied EXCEPT !.requests = @ + 1, !.code = 200,
                   !.uploaded_files = Append(@, [filename |-> filename, content |-> content])]
  /\ UNCHANGED <<env, jobs_store, drv, tasks, loop, ready, work_queue, now, output,
                 training, svc>>

\* Lines 144-177: the job is created with the fileInfo of the upload found for
\* config.filename, or the request is answered 404.
start_processing_by_name ==
  /\ applied.fn = "uploads"
  /\ Len(applied.jobs) < MaxUploads
  /\ \E filename \in {"a.json", "b.json"} :
       LET file_id == FirstUpload(applied.uploaded_files, filename)
       IN /\ applied' =
               IF file_id = 0
                 THEN [applied EXCEPT !.code = 404]
                 ELSE [applied EXCEPT !.code = 202,
                         !.jobs = Append(@, [filename |-> filename, file_id |-> file_id,
                                             fileInfo |-> applied.uploaded_files[file_id],
                                             uploads |-> Len(applied.uploaded_files)])]
          /\ applied' # applied
  /\ UNCHANGED <<env, jobs_store, drv, tasks, loop, ready, work_queue, now, output,
                 training, svc>>

SpecUpload == InitUpload /\ [][upload_file \/ start_processing_by_name]_vars

\* ========================================================== progress reader
\* GET /api/progress/{job_id}, served on the event loop that runs the driver
\* and the poll tasks.
\* A handler that could run in the middle of another callback.
HandlerCanRun_Always == TRUE

\* The event loop runs a request handler only between callbacks: while the
\* driver or a poll task runs, the request waits.
HandlerCanRun == loop = 0

\* Lines 555-571: 404 for an unknown job, otherwise a copy of the job fields.
Snapshot(j) ==
  IF jobs_store[j] = NoJob
    THEN [fn |-> "get_progress", job |-> j, code |-> 404, status |-> "absent",
          progress |-> 0, currentPhase |-> "none", videos |-> <<>>, summary |-> NoSummary]
    ELSE [fn |-> "get_progress", job |-> j, code |-> 200,
          status |-> jobs_store[j].status, progress |-> jobs_store[j].progress,
          currentPhase |-> jobs_store[j].currentPhase, videos |-> jobs_store[j].videos,
          summary |-> jobs_store[j].summary]

\* The client receives the current snapshot of job j.
get_progress(j) ==
  /\ HandlerCanRun
  /\ applied' = Snapshot(j)
  /\ applied' # applied
  /\ UNCHANGED <<env, jobs_store, drv, tasks, loop, ready, work_queue, now, output,
                 training, svc>>

\* One run on a file of two records, on a host with one worker thread, with a
\* client that asks for the progress at any time.
InitProgress == Started(1, BOOLEAN, {1}, {0}, {2})

NextProgress == Next \/ \E j \in Jobs : get_progress(j)

SpecProgress == InitProgress /\ [][NextProgress]_vars

\* ===================================================================== claims
Created(j) == jobs_store[j].status # "absent"

Ended(t) == t.phase \in {"returned", "extracting", "done"}

\* The polling loop gave up because the timeout elapsed.
TimedOut(t) == Ended(t) /\ ~t.completed /\ t.stage \notin FAILURE_STAGES

\* The status entry and the video dict of a task.
EntryOf(j, t) == jobs_store[j].videos[t.idx]

VideoOf(j, t) == drv[j].new_videos[t.idx]

\* The calls submit_project received from job j.
SubmitsOf(j) == SelectIdx(svc.submits, LAMBDA n : svc.submits[n].job = j)

\* The final record set of job j exists once gather has returned.
Collected(j) == drv[j].pc \in {"csv", "llm", "jsonl"} \/
                (drv[j].pc = "done" /\ drv[j].videos_with_transcripts # <<>>)

\* C1: a job that never reaches a terminal stage is marked failed with the
\* timeout reason once its timeout elapsed, and a sibling whose first status
\* poll reports COMPLETE has been resumed, with the outcome in its entry,
\* before that timeout elapsed.
C1_SiblingSuccessBeforeTimeout ==
  \A j \in Jobs : \A a \in 1..Len(tasks[j]) :
    LET A == tasks[j][a]
    IN TimedOut(A) =>
         /\ A.phase = "done" =>
              /\ EntryOf(j, A).status = "failed"
              /\ EntryOf(j, A).currentStep = "Timeout waiting for OpusClip"
         /\ \A b \in 1..Len(tasks[j]) \ {a} :
              LET B == tasks[j][b]
              IN (B.polls = 1 /\ B.stage = "COMPLETE") =>
                   /\ B.phase = "done"
                   /\ B.resolvedAt < A.start_time + MaxWaitTicks

\* C2: every polling loop handed to the executor has a worker thread to run
\* it at once: no loop waits in the queue for another loop to finish.
C2_AllLoopsInFlight == Len(work_queue) <= env.max_workers - RunningCount

\* C3: every record of the final record set and every row handed to the CSV
\* writer has a non-empty transcript; every record whose submission, polling
\* or extraction failed is outside the final set and has a failed status entry.
FailedSubmission(j, idx) ==
  \E n \in 1..Len(svc.submits) :
    /\ svc.submits[n].job = j
    /\ svc.submits[n].idx = idx
    /\ svc.submits[n].outcome # "handle"

FailedTask(j, idx) ==
  \E k \in 1..Len(tasks[j]) :
    /\ tasks[j][k].idx = idx
    /\ tasks[j][k].phase = "done"
    /\ tasks[j][k].result = 0

C3_FinalSetHasTranscripts ==
  \A j \in Jobs :
    /\ \A n \in 1..Len(drv[j].videos_with_transcripts) :
         drv[j].new_videos[drv[j].videos_with_transcripts[n]].transcript # <<>>
    /\ \A r \in 1..Len(output[j].rows) : output[j].rows[r].transcript # <<>>
    /\ \A idx \in 1..Len(drv[j].new_videos) :
         (FailedSubmission(j, idx) \/ FailedTask(j, idx)) =>
           /\ idx \notin Range(drv[j].videos_with_transcripts)
           /\ \A r \in 1..Len(output[j].rows) :
                output[j].rows[r].video_id # drv[j].new_videos[idx].video_id
           /\ idx <= Len(jobs_store[j].videos)
           /\ jobs_store[j].videos[idx].id = drv[j].new_videos[idx].video_id
           /\ jobs_store[j].videos[idx].status = "failed"

\* A run wrote its artifact with one record in the final set while another
\* record failed at extraction.
C3_Witness ==
  \E j \in Jobs :
    /\ output[j].exists
    /\ Len(output[j].rows) = 1
    /\ \E idx \in 1..Len(drv[j].new_videos) : FailedTask(j, idx)

\* The ids of the artifact an earlier run left for the channel.
PriorIds == {output[0].rows[r].video_id : r \in 1..Len(output[0].rows)}

IdsOf(f) == {output[f].rows[r].video_id : r \in 1..Len(output[f].rows)}

\* The submit loop of job j has run to its end.
SubmitLoopOver(j) == drv[j].pc \in {"submitted", "gather", "csv", "llm", "jsonl"} \/
                     (drv[j].pc = "done" /\ drv[j].new_videos # <<>>)

NoArtifact(j) == ~output[j].exists /\ training[j] = -1

\* C4: a record whose id is in the prior output S is never submitted, has no
\* status entry (it is not flagged), ends a run of only such records as
\* completed, and is counted in the skipped count of the summary; every
\* other record of the batch is submitted.
C4_ExistingNeverSubmitted ==
  \A j \in Jobs :
    /\ \A n \in 1..Len(svc.submits) : svc.submits[n].video_id \notin PriorIds
    /\ Created(j) =>
         /\ \A n \in 1..Len(jobs_store[j].videos) : jobs_store[j].videos[n].id \notin PriorIds
         /\ jobs_store[j].status = "completed" =>
              jobs_store[j].summary.skipped =
                Cardinality({i \in 1..Len(drv[j].videos) : drv[j].videos[i].video_id \in PriorIds})
         /\ (drv[j].pc = "done" /\ drv[j].videos # <<>>
               /\ \A i \in 1..Len(drv[j].videos) : drv[j].videos[i].video_id \in PriorIds)
              => jobs_store[j].status = "completed"
    /\ SubmitLoopOver(j) =>
         \A i \in 1..Len(drv[j].videos) :
           drv[j].videos[i].video_id \notin PriorIds =>
             \E n \in 1..Len(svc.submits) :
               svc.submits[n].job = j /\ svc.submits[n].video_id = drv[j].videos[i].video_id

\* A completed run that skipped one record and submitted another.
C4_Witness ==
  \E j \in Jobs :
    /\ jobs_store[j].status = "completed"
    /\ jobs_store[j].summary.skipped = 1
    /\ Len(SubmitsOf(j)) = 1

\* C5: no video id is in the tabular output of more than one run.
C5_UniqueAcrossRuns ==
  \A f, g \in DOMAIN output : f # g => IdsOf(f) \cap IdsOf(g) = {}

\* C6: a record whose submission raised or came back without a handle has its
\* entry marked failed at submission and gets no polling task; every record
\* of the run is submitted once all the same, and each one that got a handle
\* gets a polling task that polls.
C6_SubmissionFailureIsolated ==
  \A j \in Jobs :
    /\ \A n \in 1..Len(svc.submits) :
         LET call == svc.submits[n]
         IN call.job = j =>
              IF call.outcome = "handle"
                THEN /\ jobs_store[j].videos[call.idx].submission = "completed"
                     /\ drv[j].pc \in {"gather", "csv", "llm", "jsonl"} =>
                          \E k \in 1..Len(tasks[j]) : tasks[j][k].idx = call.idx
                ELSE /\ jobs_store[j].videos[call.idx].status = "failed"
                     /\ jobs_store[j].videos[call.idx].submission = "failed"
                     /\ jobs_store[j].videos[call.idx].transcript_step = "pending"
                     /\ \A k \in 1..Len(tasks[j]) : tasks[j][k].idx # call.idx
    /\ \A k \in 1..Len(tasks[j]) : Ended(tasks[j][k]) => tasks[j][k].polls >= 1
    /\ SubmitLoopOver(j) =>
         /\ Len(SubmitsOf(j)) = Len(drv[j].new_videos)
         /\ \A idx \in 1..Len(drv[j].new_videos) :
              \E n \in 1..Len(svc.submits) : svc.submits[n].job = j /\ svc.submits[n].idx = idx

\* One submission of a run failed and another record of the run was polled.
C6_Witness ==
  \E j \in Jobs :
    /\ \E idx \in 1..Len(drv[j].new_videos) : FailedSubmission(j, idx)
    /\ \E k \in 1..Len(tasks[j]) : tasks[j][k].polls >= 1

\* Every submission of job j failed.
ZeroSubmitted(j) ==
  /\ SubmitLoopOver(j)
  /\ \A n \in 1..Len(svc.submits) : svc.submits[n].job = j => svc.submits[n].outcome # "handle"

\* C7: when no submission of a run succeeded the driver never reaches the
\* polling stage, starts no polling task, writes no artifact and ends the run
\* in error.
C7_NoSubmissionIsFatal ==
  \A j \in Jobs :
    ZeroSubmitted(j) =>
      /\ drv[j].pc \in {"submitted", "done"}
      /\ tasks[j] = <<>>
      /\ NoArtifact(j)
      /\ drv[j].pc = "done" =>
           /\ jobs_store[j].status = "error"
           /\ jobs_store[j].error = "No projects submitted successfully"

\* A run of two new records ended after both submissions failed.
C7_Witness ==
  \E j \in Jobs :
    /\ drv[j].pc = "done"
    /\ Len(drv[j].new_videos) = 2
    /\ ZeroSubmitted(j)

\* Some record of job j yielded a transcript.
SomeTranscript(j) == \E k \in 1..Len(tasks[j]) : tasks[j][k].result # 0

\* C8 as stated: a run with at least one transcript always ends completed.
C8_TranscriptMeansCompleted ==
  \A j \in Jobs :
    (drv[j].pc = "done" /\ SomeTranscript(j)) => jobs_store[j].status = "completed"

\* The fields of a job that are not per-item entries.
Aggregate(j) ==
  <<jobs_store[j].status, jobs_store[j].progress, jobs_store[j].currentPhase,
    jobs_store[j].summary, jobs_store[j].error>>

C8_EndsCompletedUnlessWriteFails ==
  \A j \in Jobs :
    (drv[j].pc = "done" /\ SomeTranscript(j)) =>
      \/ jobs_store[j].status = "completed"
      \/ /\ jobs_store[j].status = "error"
         /\ jobs_store[j].error \in {"generate_csv", "convert_csv_to_jsonl"}

C8_FailureTouchesOneEntry ==
  \A j \in Jobs :
    Created(j) =>
      \A n \in 1..Len(jobs_store[j].videos') :
        (/\ jobs_store[j].videos'[n].status = "failed"
         /\ (n > Len(jobs_store[j].videos) \/ jobs_store[j].videos[n].status # "failed"))
          => /\ \A m \in 1..Len(jobs_store[j].videos) \ {n} :
                  jobs_store[j].videos'[m] = jobs_store[j].videos[m]
             /\ Aggregate(j)' = Aggregate(j)

\* C8, amended: a run with at least one transcript ends completed unless
\* writing the CSV or the JSONL artifact raises, whatever happened to the
\* other records; a step that marks an item failed changes no other entry
\* and none of the aggregate fields of the job.
C8_PerItemFailureStaysLocal ==
  []C8_EndsCompletedUnlessWriteFails /\ [][C8_FailureTouchesOneEntry]_vars

\* A run completed with one transcript although its other record failed.
C8_Witness ==
  \E j \in Jobs :
    /\ jobs_store[j].status = "completed"
    /\ SomeTranscript(j)
    /\ \E n \in 1..Len(jobs_store[j].videos) : jobs_store[j].videos[n].status = "failed"

\* The fatal cases of a run.
NoInput(j) == env.opus_api_key /\ env.file_videos = <<>>

ZeroTranscripts(j) == tasks[j] # <<>> /\ AllDone(tasks[j]) /\ ~SomeTranscript(j)

FatalMessages ==
  {"No videos found in JSON file", "No projects submitted successfully",
   "No transcripts extracted successfully"}

C10_ReturnMatchesStage ==
  \A j \in Jobs : \A k \in 1..Len(tasks[j]) :
    LET t == tasks[j][k]
    IN /\ Ended(t) => (t.completed <=> t.stage = "COMPLETE")
       /\ t.stage \in FAILURE_STAGES \cup {"COMPLETE"} => Ended(t)

C10_ReturnIsLocal ==
  \A j \in Jobs : \A k \in 1..Len(tasks[j]) :
    /\ tasks[j][k].stage \in FAILURE_STAGES \cup {"COMPLETE"} =>
         tasks'[j][k].polls = tasks[j][k].polls
    /\ (~Ended(tasks[j][k]) /\ Ended(tasks'[j][k])) =>
         \A h \in Jobs : \A m \in 1..Len(tasks[h]) :
           <<h, m>> # <<j, k>> => tasks'[h][m] = tasks[h][m]

C10_PollingLoopOutcome == []C10_ReturnMatchesStage /\ [][C10_ReturnIsLocal]_vars

\* One loop returned on a failure stage at its first poll and a sibling that
\* started with it went on to poll a second time.
C10_Witness ==
  \E j \in Jobs : \E a, b \in 1..Len(tasks[j]) :
    /\ a # b
    /\ tasks[j][a].stage \in FAILURE_STAGES
    /\ tasks[j][a].polls = 1
    /\ tasks[j][b].start_time = tasks[j][a].start_time
    /\ tasks[j][b].polls = 2

\* The step in which the status request of task k of job j raised.
PollRaised(j, k) ==
  /\ tasks[j][k].phase = "inflight"
  /\ tasks'[j][k].phase # "inflight"
  /\ tasks'[j][k].last = "raise"

C11_RaiseKeepsLooping ==
  \A j \in Jobs : \A k \in 1..Len(tasks[j]) :
    /\ PollRaised(j, k) =>
         /\ tasks'[j][k].phase = "running"
         /\ tasks'[j][k].wake = now + 1
         /\ tasks'[j][k].start_time = tasks[j][k].start_time
         /\ ready' = ready
    /\ tasks'[j][k].polls > tasks[j][k].polls =>
         now - tasks[j][k].start_time < MaxWaitTicks

C11_RaiseCountsTowardTimeout ==
  \A j \in Jobs : \A k \in 1..Len(tasks[j]) :
    LET t == tasks[j][k]
    IN /\ (t.last = "raise" /\ Ended(t)) => TimedOut(t)
       /\ (TimedOut(t) /\ t.phase = "done") =>
            /\ t.resolvedAt - t.start_time >= MaxWaitTicks
            /\ \E d \in env.latencies : t.resolvedAt - t.start_time <= MaxWaitTicks + d

\* C11: a status request that raises makes the loop neither return nor raise:
\* the loop sleeps one interval and polls again; a poll is sent only while the
\* elapsed time is below the timeout, and a loop times out at the same elapsed
\* time whether its polls raised or answered.
C11_PollErrorIsRetried ==
  []C11_RaiseCountsTowardTimeout /\ [][C11_RaiseKeepsLooping]_vars

\* A loop polled more than once, its latest request took a tick and raised,
\* and it timed out.
C11_Witness ==
  \E j \in Jobs : \E k \in 1..Len(tasks[j]) :
    /\ tasks[j][k].last = "raise"
    /\ tasks[j][k].polls >= 2
    /\ tasks[j][k].phase = "done"
    /\ tasks[j][k].resolvedAt - tasks[j][k].start_time = MaxWaitTicks + 1

\* What a status entry tells about why its item failed.
Reason(entry) == <<entry.status, entry.transcript_step, entry.currentStep>>

\* C12: the entry of a job whose polling ended on a failure stage records a
\* reason that differs from the reason in the entry of a job that timed out.
C12_FailureReasonDiffersFromTimeout ==
  \A j, h \in Jobs : \A a \in 1..Len(tasks[j]) : \A b \in 1..Len(tasks[h]) :
    (/\ tasks[j][a].phase = "done"
     /\ tasks[j][a].stage \in FAILURE_STAGES
     /\ tasks[h][b].phase = "done"
     /\ TimedOut(tasks[h][b]))
      => Reason(EntryOf(j, tasks[j][a])) # Reason(EntryOf(h, tasks[h][b]))

\* The steps an entry field may take.
SubmissionMoves == {<<"processing", "completed">>, <<"processing", "failed">>}

TranscriptMoves ==
  {<<"pending", "processing">>, <<"processing", "completed">>, <<"processing", "failed">>}

StatusMoves == {<<"processing", "completed">>, <<"processing", "failed">>}

Moves(old, new, allowed) == old = new \/ <<old, new>> \in allowed

\* C13: the entries of a job are never removed; in every step the submission
\* state of an entry stays or goes from processing to completed or failed,
\* its transcript state stays or goes pending to processing to completed or
\* failed, its status stays or goes from processing to failed or completed,
\* and an entry whose status is failed or completed does not change at all.
C13_EntryMoves ==
  \A j \in Jobs :
    Created(j) =>
      \A n \in 1..Len(jobs_store[j].videos) :
        /\ n <= Len(jobs_store[j].videos')
        /\ LET old == jobs_store[j].videos[n]
               new == jobs_store[j].videos'[n]
           IN /\ Moves(old.submission, new.submission, SubmissionMoves)
              /\ Moves(old.transcript_step, new.transcript_step, TranscriptMoves)
              /\ Moves(old.status, new.status, StatusMoves)
              /\ old.status \in {"failed", "completed"} => new = old

C13_EntriesOnlyMoveForward == [][C13_EntryMoves]_vars

\* An entry went all the way: submitted, polled, extracted, completed.
C13_Witness ==
  \E j \in Jobs :
    /\ Created(j)
    /\ \E n \in 1..Len(jobs_store[j].videos) :
         /\ jobs_store[j].videos[n].status = "completed"
         /\ jobs_store[j].videos[n].submission = "completed"
         /\ jobs_store[j].videos[n].transcript_step = "completed"
    /\ \E n \in 1..Len(jobs_store[j].videos) :
         jobs_store[j].videos[n].status = "failed"

\* The new records of job j whose transcript was extracted.
Extracted(j) == {tasks[j][k].idx : k \in {m \in 1..Len(tasks[j]) : tasks[j][m].result # 0}}

\* C14: in a completed run the summary's processed count is the number of
\* records whose transcript was extracted and its skipped count the number of
\* records the dedup gate excluded; failed records are in neither count; the
\* status list has one entry per new record, in order, and the entry of each
\* failed record has status failed, that of each extracted one completed.
C14_SummaryCounts ==
  \A j \in Jobs :
    (Created(j) /\ jobs_store[j].status = "completed") =>
      LET d == drv[j]
          entries == jobs_store[j].videos
      IN /\ jobs_store[j].summary.processed = Cardinality(Extracted(j))
         /\ jobs_store[j].summary.skipped = Len(d.videos) - Len(d.new_videos)
         /\ jobs_store[j].summary.skipped =
              Cardinality({i \in 1..Len(d.videos) : d.videos[i].video_id \in PriorIds})
         /\ Len(entries) = Len(d.new_videos)
         /\ \A idx \in 1..Len(entries) :
              /\ entries[idx].id = d.new_videos[idx].video_id
              /\ entries[idx].status = IF idx \in Extracted(j) THEN "completed" ELSE "failed"
              /\ idx \notin Extracted(j) <=> (FailedSubmission(j, idx) \/ FailedTask(j, idx))

\* A completed run of two new records: one extracted, one failed, none skipped.
C14_Witness ==
  \E j \in Jobs :
    /\ Created(j)
    /\ jobs_store[j].status = "completed"
    /\ jobs_store[j].summary = [processed |-> 1, skipped |-> 0]
    /\ Len(jobs_store[j].videos) = 2

\* A step of a worker thread, which runs wait_for_project_completion.
ThreadStep ==
  \/ WorkerTake
  \/ \E j \in Jobs, k \in 1..MaxVideos : ThreadPoll(j, k)
  \/ \E j \in Jobs, k \in 1..MaxVideos : ThreadResponse(j, k)

\* A step of the wait_and_extract coroutine k of job j.
PollTaskStep(j, k) == TaskStart(j, k) \/ TaskResume(j, k) \/ TaskExtract(j, k)

\* The locals of the driver of job j other than its list of new records.
DriverLocals(j) ==
  <<drv[j].pc, drv[j].videos, drv[j].skipped_videos, drv[j].i, drv[j].b,
    drv[j].project_submissions, drv[j].videos_with_transcripts, drv[j].analysis,
    drv[j].suggested_language, drv[j].suggested_max_char, drv[j].converter>>

C15_WritesStayWithOwner ==
  /\ ThreadStep => UNCHANGED <<jobs_store, drv, output, training, loop, now>>
  /\ \A j \in Jobs : \A k \in 1..Len(tasks[j]) :
       PollTaskStep(j, k) =>
         LET idx == tasks[j][k].idx
         IN /\ Aggregate(j)' = Aggregate(j)
            /\ DriverLocals(j)' = DriverLocals(j)
            /\ \A m \in 1..Len(jobs_store[j].videos) \ {idx} :
                 jobs_store[j].videos'[m] = jobs_store[j].videos[m]
            /\ \A m \in 1..Len(drv[j].new_videos) \ {idx} :
                 drv[j].new_videos'[m] = drv[j].new_videos[m]
            /\ \A h \in Jobs \ {j} : jobs_store'[h] = jobs_store[h] /\ drv'[h] = drv[h]
            /\ UNCHANGED <<output, training>>
  /\ (jobs_store' # jobs_store \/ drv' # drv) =>
       \/ loop # 0
       \/ ready # <<>>
       \/ \E j \in Jobs : ~Created(j) /\ jobs_store'[j].status # "absent"

\* C15: a worker thread running a polling loop writes no job state; a poll
\* task writes only the status entry and the record of its own item, never
\* another item's entry, the aggregate fields of the job or the driver's
\* other data; every write to job state is made by a callback or handler on
\* the event loop, which runs one at a time.
C15_PollTaskFrame == [][C15_WritesStayWithOwner]_vars

\* One poll task has written the failure of its item while a worker thread
\* still runs the polling loop of a sibling.
C15_Witness ==
  \E j \in Jobs : \E a, b \in 1..Len(tasks[j]) :
    /\ tasks[j][a].phase = "done"
    /\ EntryOf(j, tasks[j][a]).status = "failed"
    /\ Running(tasks[j][b])
    /\ EntryOf(j, tasks[j][b]).transcript_step = "processing"

\* The summary and the lines of all chapters, in chapter and line order.
Items(chapters) ==
  LET F[i \in 0..Len(chapters)] ==
        IF i = 0 THEN <<>>
        ELSE F[i-1] \o <<[type |-> "summary", content |-> chapters[i].summary]>>
                    \o chapters[i].lines
  IN F[Len(chapters)]

\* The content of an item, as it is or without surrounding blanks.
Norm(content, stripped) == IF stripped THEN Strip(content) ELSE content

\* The contents of the verbal items, one after the other.
PlainExpected(chapters, stripped) ==
  LET items == Items(chapters)
      G[i \in 0..Len(items)] ==
        IF i = 0 THEN <<>>
        ELSE G[i-1] \o (IF items[i].type = "verbal" THEN Norm(items[i].content, stripped)
                        ELSE <<>>)
  IN G[Len(items)]

\* Summaries and visual contents wrapped, verbal contents bare, items of
\* another type or without content left out, a single blank between parts.
EnhancedExpected(chapters, stripped) ==
  LET items == Items(chapters)
      kept == SelectIdx(items, LAMBDA i :
                /\ items[i].type \in {"summary", "verbal", "visual"}
                /\ Norm(items[i].content, stripped) # <<>>)
      part(i) == IF kept[i].type = "verbal" THEN Norm(kept[i].content, stripped)
                 ELSE VisualMarker(Norm(kept[i].content, stripped))
      H[i \in 0..Len(kept)] ==
        IF i = 0 THEN <<>>
        ELSE IF i = 1 THEN part(1)
        ELSE H[i-1] \o <<" ">> \o part(i)
  IN H[Len(kept)]

Normalized == applied.fn = "normalize" /\ applied.done

ItemsOf == applied.json_data.itemList

Identifiers == {"v1", "v2", "v3"}

\* The raw items of the document that carry identifier id.
Carriers(id) == {i \in 1..Len(ItemsOf) : ItemsOf[i].id = id}

\* Those of them that parse_video_metadata can read.
Readable(id) == {i \in Carriers(id) : ItemsOf[i].author = "dict"}

RecordsOf(id) ==
  {n \in 1..Len(applied.videos) : applied.videos[n].video_id = id}

Descending ==
  \A m, n \in 1..Len(applied.videos) :
    m < n => applied.videos[m].view_count >= applied.videos[n].view_count

Lowest(S) == CHOOSE i \in S : \A k \in S : i <= k

\* The raw items the records of identifier id were built from.
BuiltFrom(id) == {applied.videos[n].item : n \in RecordsOf(id)}

Shared(id) == Cardinality(Carriers(id)) > 1

\* Records with equal view counts are in the order of their raw items.
StableOrder ==
  \A m, n \in 1..Len(applied.videos) :
    (m < n /\ applied.videos[m].view_count = applied.videos[n].view_count)
      => applied.videos[m].item < applied.videos[n].item

\* C18 as stated: the record kept for an identifier that several raw items
\* share is the one built from the first of them, and records with equal view
\* counts keep their input order.
C18_FirstCarrierWins ==
  Normalized =>
    /\ \A id \in Identifiers : Shared(id) => BuiltFrom(id) = {Lowest(Carriers(id))}
    /\ StableOrder

\* C18 amended: the record kept is the one built from the first of the
\* sharing items that parses without error, and none is kept when none of
\* them parses.
C18_FirstReadableCarrierWins ==
  Normalized =>
    /\ \A id \in Identifiers :
         Shared(id) =>
           BuiltFrom(id) = IF Readable(id) = {} THEN {}
                           ELSE {Lowest(Readable(id))}
    /\ \A n \in 1..Len(applied.videos) :
         applied.videos[n].item # 0 =>
           applied.videos[n].view_count = ViewCount(ItemsOf[applied.videos[n].item])
    /\ StableOrder

\* Two readable items share an identifier and differ in view count, the
\* second has the higher one, and a later item of another identifier ties with
\* the first: the first is kept and stays ahead of the tie.
C18_Witness ==
  /\ Normalized
  /\ Len(ItemsOf) = 3
  /\ \A i \in 1..3 : ItemsOf[i].author = "dict"
  /\ ItemsOf[1].id = "v1" /\ ItemsOf[2].id = "v1" /\ ItemsOf[3].id = "v2"
  /\ ItemsOf[1].playCount = 1 /\ ItemsOf[2].playCount = 2
  /\ ItemsOf[3].playCount = 1
  /\ Len(applied.videos) = 2
  /\ applied.videos[1].item = 1
  /\ applied.videos[2].item = 3

\* ---------------------------------------------------------------------- C19
\* The poll task of job j that worked on the video at position v.
TaskOfVideo(j, v) == tasks[j][CHOOSE k \in 1..Len(tasks[j]) : tasks[j][k].idx = v]

FinalSet(j) == drv[j].videos_with_transcripts

\* C19 as stated: in the final record set no record stands ahead of a
\* record whose poll task resolved at an earlier time.
C19_ResolutionOrder ==
  \A j \in Jobs :
    Collected(j) =>
      \A m, n \in 1..Len(FinalSet(j)) :
        m < n => TaskOfVideo(j, FinalSet(j)[m]).resolvedAt
                   <= TaskOfVideo(j, FinalSet(j)[n]).resolvedAt

\* C19 amended: the final record set lists the successful records, each
\* once, in the order in which they were submitted, whatever order their
\* poll tasks resolved in.
C19_SubmissionOrder ==
  \A j \in Jobs :
    Collected(j) =>
      /\ \A m, n \in 1..Len(FinalSet(j)) : m < n => FinalSet(j)[m] < FinalSet(j)[n]
      /\ Range(FinalSet(j)) =
           {tasks[j][k].idx : k \in {n \in 1..Len(tasks[j]) : tasks[j][n].result # 0}}

\* Two records succeeded and the poll task of the first resolved after the
\* poll task of the second.
C19_Witness ==
  \E j \in Jobs :
    /\ Collected(j)
    /\ Len(FinalSet(j)) = 2
    /\ TaskOfVideo(j, FinalSet(j)[1]).resolvedAt
         > TaskOfVideo(j, FinalSet(j)[2]).resolvedAt

\* ---------------------------------------------------------------------- C20
\* The submit loop of job j is running or has just ended.
SubmitPhase(j) == drv[j].pc \in {"submit", "submitting", "submitted"}

\* Submit requests of job j that were sent and have not answered yet: every
\* request is sent right after its status entry is appended.
InFlight(j) ==
  IF Created(j) THEN Len(jobs_store[j].videos) - Len(SubmitsOf(j)) ELSE 0

\* The n-th call of job j is for the n-th new record, and after the loop every
\* new record has had its call.
OnceInInputOrder(j) ==
  /\ \A n \in 1..Len(SubmitsOf(j)) :
       /\ SubmitsOf(j)[n].idx = n
       /\ SubmitsOf(j)[n].video_id = drv[j].new_videos[n].video_id
  /\ SubmitLoopOver(j) => Len(SubmitsOf(j)) = Len(drv[j].new_videos)

\* The handle the service gave to the call of job j for its n-th record.
HandleOf(j, n) ==
  CHOOSE p \in 1..Len(svc.submits) : svc.submits[p].job = j /\ svc.submits[p].idx = n

\* The status entries and the submitted set are a function of the records and
\* of what the service answered, in which the batch size does not occur.
FixedByAnswers(j) ==
  SubmitPhase(j) =>
    /\ \A n \in 1..Len(SubmitsOf(j)) :
         jobs_store[j].videos[n] =
           SubmitEntry(NewEntry(drv[j].new_videos[n]), SubmitsOf(j)[n].outcome,
                       HandleOf(j, n))
    /\ drv[j].project_submissions =
         SelectIdx([n \in 1..Len(SubmitsOf(j)) |-> n],
                   LAMBDA n : SubmitsOf(j)[n].outcome = "handle")
    /\ drv[j].pc = "submitted" => Len(jobs_store[j].videos) = Len(drv[j].new_videos)

\* C20: for every batch size of at least 1, every new record is submitted
\* exactly once and in input order, at most one submit request is in flight at
\* any time, and the status entries and the set of submitted records depend on
\* the records and the answers of the service only, not on the batch size.
C20_BatchSizeIrrelevant ==
  /\ \A j \in Jobs : OnceInInputOrder(j) /\ FixedByAnswers(j) /\ InFlight(j) \in {0, 1}
  /\ \A j, h \in Jobs : j # h => InFlight(j) + InFlight(h) <= 1

\* A run with batch size 1 went through two batches of one record each; the
\* first submission got no handle, the second got one.
C20_Witness ==
  \E j \in Jobs :
    /\ drv[j].pc = "submitted"
    /\ jobs_store[j].config.batchSize = 1
    /\ Len(SubmitsOf(j)) = 2
    /\ SubmitsOf(j)[1].outcome # "handle"
    /\ SubmitsOf(j)[2].outcome = "handle"

\* ---------------------------------------------------------------------- C21
\* The poll tasks that asked the service for their clips and have not yet
\* finished extracting the transcript.
Extracting ==
  {jk \in AllTasks : jk[2] <= Len(tasks[jk[1]]) /\ tasks[jk[1]][jk[2]].phase = "extracting"}

\* C21: at any time at most one item is in its fetch-and-extract step, and
\* while one is, no other callback of the event loop runs.
C21_OneExtractionAtATime ==
  /\ Cardinality(Extracting) <= 1
  /\ \A jk \in Extracting : loop = jk[1]

\* One item is in its fetch-and-extract step while a worker thread still
\* runs the polling loop of a sibling.
C21_Witness ==
  \E jk \in Extracting :
    \E k \in 1..Len(tasks[jk[1]]) : k # jk[2] /\ Running(tasks[jk[1]][k])

\* ---------------------------------------------------------------------- C22
\* The poll tasks of job j whose project completed and whose request for the
\* result list was answered with a list.
Answered(j) ==
  {k \in 1..Len(tasks[j]) :
     /\ tasks[j][k].phase = "done"
     /\ tasks[j][k].completed
     /\ tasks[j][k].fetched # <<>>
     /\ ~tasks[j][k].fetched[1].raised}

ClipsOf(t) == t.fetched[1].clips

\* The text of the chapter structure of one entry of the list; empty when the
\* entry has no chapter structure or no text.
TextOf(clip) ==
  IF clip.screenplay.empty THEN <<>> ELSE get_enhanced_transcript(clip.screenplay.chapters)

FirstUsable(t) == ClipsOf(t) # <<>> /\ TextOf(ClipsOf(t)[1]) # <<>>

LaterUsable(t) == \E i \in 2..Len(ClipsOf(t)) : TextOf(ClipsOf(t)[i]) # <<>>

\* C22: an item whose result list is empty or whose first entry yields no
\* text is marked failed and is not in the final record set, whatever the
\* later entries hold; an item whose first entry yields text carries that
\* text; and the final record set is made of exactly the items of the second
\* kind, so the others do not end the run.
C22_OnlyFirstEntryCounts ==
  \A j \in Jobs :
    /\ \A k \in Answered(j) :
         LET t == tasks[j][k]
         IN IF FirstUsable(t)
              THEN /\ t.result = t.idx
                   /\ VideoOf(j, t).transcript = TextOf(ClipsOf(t)[1])
                   /\ EntryOf(j, t).transcript_step = "completed"
              ELSE /\ t.result = 0
                   /\ EntryOf(j, t).status = "failed"
                   /\ EntryOf(j, t).transcript_step = "failed"
    /\ Collected(j) =>
         Range(FinalSet(j)) = {tasks[j][k].idx : k \in {n \in Answered(j) : FirstUsable(tasks[j][n])}}

\* The first entry of one item's list had no text while a later entry had;
\* the item failed, a sibling succeeded and the run went on to its artifacts.
C22_Witness ==
  \E j \in Jobs :
    /\ Collected(j)
    /\ \E k \in Answered(j) :
         /\ ~FirstUsable(tasks[j][k])
         /\ LaterUsable(tasks[j][k])
         /\ EntryOf(j, tasks[j][k]).status = "failed"
    /\ FinalSet(j) # <<>>

\* ---------------------------------------------------------------------- C23
\* transcript_source values that name an origin of the text.
Provenances == {"tiktok_captions", "opusclip"}

\* C23: every row of every tabular artifact, also of one whose writing was cut
\* short, has a non-empty transcript and a provenance tag that names the
\* native captions or the external service.
C23_RowsHaveTextAndProvenance ==
  \A f \in DOMAIN output :
    \A n \in 1..Len(output[f].rows) :
      /\ output[f].rows[n].transcript # <<>>
      /\ output[f].rows[n].transcript_source \in Provenances

\* A run wrote its tabular artifact with a row for every record of the file.
C23_Witness ==
  \E j \in Jobs :
    /\ output[j].exists
    /\ Len(output[j].rows) = MaxVideos
    /\ \A n \in 1..MaxVideos : output[j].rows[n].transcript_source = "opusclip"

\* ---------------------------------------------------------------------- C24
\* The analysis of job j was attempted and failed: no credentials, the call
\* raised, or the response could not be read as a JSON object.
AnalysisFailed(j) ==
  drv[j].analysis.kind \in {"no_key", "call_raised", "unparsable", "not_object"}

CallerValues(j) ==
  [language |-> jobs_store[j].config.language, max_char |-> jobs_store[j].config.maxChar]

\* C24: after a failed analysis the run is still processing and goes on to the
\* conversion; the converter is built with the language and the length of the
\* request, both of them; and the run ends completed exactly when the
\* conversion wrote its file, the only error being that of the conversion.
C24_AnalysisFailureIsHarmless ==
  \A j \in Jobs :
    AnalysisFailed(j) =>
      /\ drv[j].pc \in {"jsonl", "done"}
      /\ drv[j].suggested_language = CallerValues(j).language
      /\ drv[j].suggested_max_char = CallerValues(j).max_char
      /\ drv[j].pc = "jsonl" =>
           jobs_store[j].status = "processing" /\ jobs_store[j].error = "none"
      /\ drv[j].pc = "done" =>
           /\ drv[j].converter = CallerValues(j)
           /\ IF training[j] # -1
                THEN jobs_store[j].status = "completed"
                ELSE /\ jobs_store[j].status = "error"
                     /\ jobs_store[j].error = "convert_csv_to_jsonl"

\* A request with a language and a length of the caller ended completed after
\* the analysis got a response that was no JSON object.
C24_Witness ==
  \E j \in Jobs :
    /\ drv[j].analysis.kind = "not_object"
    /\ jobs_store[j].status = "completed"
    /\ jobs_store[j].config.language = "French"
    /\ drv[j].converter = [language |-> "French", max_char |-> 100]

\* ---------------------------------------------------------------------- C25
PriorFiles == applied.csv_files

\* The artifact opens, has the identifier column and is read to its end.
ReadableFile(f) ==
  PriorFiles[f].opens /\ PriorFiles[f].header /\ PriorFiles[f].raises_at = 0

\* The identifier of row r of artifact f, without surrounding blanks.
IdAt(f, r) == Strip(PriorFiles[f].cells[r])

\* C25 as stated: the gate returns exactly the non-empty identifiers of the
\* artifacts that are readable; every other artifact adds nothing.
C25_UnionOfReadableArtifacts ==
  (applied.fn = "dedup" /\ applied.done) =>
    applied.existing_ids =
      {IdAt(fr[1], fr[2]) :
         fr \in {x \in (1..Len(PriorFiles)) \X (1..MaxRows) :
                   /\ ReadableFile(x[1])
                   /\ x[2] <= Len(PriorFiles[x[1]].cells)
                   /\ IdAt(x[1], x[2]) # <<>>}}

\* C25 amended: the gate returns the non-empty identifiers of the readable
\* artifacts and, of an artifact whose reading fails part-way, those of the
\* rows before the failure; an artifact that does not open or lacks the
\* identifier column adds nothing, and no artifact keeps the identifiers of
\* another from being returned.
C25_UnionOfRowsRead ==
  (applied.fn = "dedup" /\ applied.done) =>
    applied.existing_ids =
      {IdAt(fr[1], fr[2]) :
         fr \in {x \in (1..Len(PriorFiles)) \X (1..MaxRows) :
                   /\ PriorFiles[x[1]].opens
                   /\ PriorFiles[x[1]].header
                   /\ x[2] <= Len(PriorFiles[x[1]].cells)
                   /\ PriorFiles[x[1]].raises_at = 0 \/ x[2] < PriorFiles[x[1]].raises_at
                   /\ IdAt(x[1], x[2]) # <<>>}}

\* The first artifact failed at its second row, after a row with an id; the
\* second artifact was readable and held another id; both ids were returned.
C25_Witness ==
  /\ applied.fn = "dedup"
  /\ applied.done
  /\ Len(PriorFiles) = 2
  /\ PriorFiles[1].opens /\ PriorFiles[1].header /\ PriorFiles[1].raises_at = 2
  /\ PriorFiles[1].cells[1] = <<"1">>
  /\ ReadableFile(2)
  /\ applied.existing_ids = {<<"1">>, <<"2">>}

\* ---------------------------------------------------------------------- C26
Terminal(j) == Created(j) /\ jobs_store[j].status \in {"completed", "error"}

\* The client holds an answer that showed job j in a terminal status.
SawTerminal(j) ==
  /\ applied.fn = "get_progress"
  /\ applied.job = j
  /\ applied.status \in {"completed", "error"}

C26_TerminalStateStays ==
  \A j \in Jobs :
    /\ Created(j) => Created(j)'
    /\ Terminal(j) => jobs_store'[j] = jobs_store[j]

\* C26: a created job stays in the job store; a job whose status is completed
\* or error changes no more, status, progress and summary included; and an
\* answer that showed a terminal status is what every later progress query
\* returns.
C26_TerminalSnapshotIsFinal ==
  /\ [][C26_TerminalStateStays]_vars
  /\ [](\A j \in Jobs : SawTerminal(j) => applied = Snapshot(j))

\* The client was shown the completed job with its summary.
C26_Witness ==
  \E j \in Jobs :
    /\ SawTerminal(j)
    /\ applied.status = "completed"
    /\ applied.progress = 100
    /\ applied.summary.processed = 1
    /\ Len(applied.videos) = 2

\* ---------------------------------------------------------------------- C27
ProgressInRange(j) ==
  /\ jobs_store[j].progress \in 0..100
  /\ jobs_store[j].progress = 100 <=> jobs_store[j].status = "completed"

ProgressGrows(j) == Created(j) => jobs_store'[j].progress >= jobs_store[j].progress

\* C27: the progress of a job is an integer from 0 to 100, it never decreases
\* during the run, and it is 100 exactly when the status is completed.
C27_ProgressIsMonotone ==
  /\ [](\A j \in Jobs : Created(j) => ProgressInRange(j))
  /\ [][\A j \in Jobs : ProgressGrows(j)]_vars

\* A run went through the artifact phases and completed at 100.
C27_Witness ==
  \E j \in Jobs :
    /\ Created(j)
    /\ jobs_store[j].status = "completed"
    /\ jobs_store[j].progress = 100
    /\ jobs_store[j].summary.processed >= 1

\* ---------------------------------------------------------------------- C28
\* Task k of job j sends a status request in this step.
PollStarts(j, k) == tasks'[j][k].polls > tasks[j][k].polls

C28_NoPollAfterTimeout ==
  \A j \in Jobs : \A k \in 1..Len(tasks[j]) :
    PollStarts(j, k) =>
      /\ tasks[j][k].phase = "running"
      /\ tasks'[j][k].polls = tasks[j][k].polls + 1
      /\ now - tasks[j][k].start_time \in 0..(MaxWaitTicks - 1)

C28_BoundedLoop ==
  \A j \in Jobs : \A k \in 1..Len(tasks[j]) :
    LET t == tasks[j][k]
    IN /\ t.polls \in 0..MaxWaitTicks
       /\ Running(t) => \E d \in env.latencies : now - t.start_time <= MaxWaitTicks + d
       /\ (Ended(t) /\ t.last # "COMPLETE") => ~t.completed

C28_LoopReturns ==
  \A j \in Jobs : \A k \in 1..MaxVideos :
    (k <= Len(tasks[j]) /\ Running(tasks[j][k])) ~> (k <= Len(tasks[j]) /\ Ended(tasks[j][k]))

\* C28: the polling loop terminates whatever the status requests answer, all
\* of them raising included: it sends at most timeout / interval requests,
\* sends none once the elapsed time has reached the timeout, returns once it
\* runs, and returns False unless a request answered COMPLETE.
C28_PollingLoopTerminates ==
  /\ []C28_BoundedLoop
  /\ [][C28_NoPollAfterTimeout]_vars
  /\ C28_LoopReturns

\* A loop whose every status request raised sent as many requests as the
\* timeout allows and returned False.
C28_Witness ==
  \E j \in Jobs : \E k \in 1..Len(tasks[j]) :
    /\ Ended(tasks[j][k])
    /\ tasks[j][k].polls = MaxWaitTicks
    /\ tasks[j][k].last = "raise"
    /\ tasks[j][k].stage \notin FAILURE_STAGES \cup {"COMPLETE"}
    /\ ~tasks[j][k].completed

\* ---------------------------------------------------------------------- C29
Settled(entry) == entry.status \in {"failed", "completed"}

SawProcessing == applied.fn = "get_progress" /\ applied.status = "processing"

\* C30: the driver shares the event loop with the progress handler and yields
\* only in asyncio.gather, so an answer with status processing shows progress
\* 0 (the driver has not started) or 20 (the polling stage), never 5, 10, 15,
\* 70, 80 or 85; and an answer is produced only while no callback runs.
C30_ReaderSeesOnlyZeroOrTwenty ==
  /\ [](SawProcessing => applied.progress \in {0, 20})
  /\ [][applied' # applied => (loop = 0 /\ loop' = 0)]_vars

\* The client was shown the polling stage: progress 20 with both entries
\* listed, one of them already failed, while the job is still processing.
C30_Witness ==
  /\ SawProcessing
  /\ applied.progress = 20
  /\ Len(applied.videos) = 2
  /\ \E n \in 1..2 : applied.videos[n].status = "failed"
  /\ \E j \in Jobs : applied.job = j /\ jobs_store[j].status = "processing"

\* ---------------------------------------------------------------------- C31
\* The driver of job j has split its records into skipped and new ones.
Deduplicated(j) ==
  /\ Created(j)
  /\ drv[j].pc \notin {"none", "queued", "parse", "dedup"}
  /\ drv[j].videos # <<>>

Considered(j) == Min(jobs_store[j].config.videosToProcess, Len(env.file_videos))

\* C31: with a positive count limit N the run considers the first
\* min(N, total) records of the list sorted by descending view count, all of
\* them with a view count no lower than that of any record left out; skipped
\* plus new records number min(N, total); and when all of them are in the
\* prior output the run completes with processed 0 and submits nothing,
\* whatever unprocessed records lie beyond the top N.
C31_LimitBeforeDedup ==
  \A j \in Jobs :
    (Deduplicated(j) /\ jobs_store[j].config.videosToProcess > 0) =>
      LET d == drv[j]
          top == SubSeq(env.file_videos, 1, Considered(j))
      IN /\ d.videos = top
         /\ Len(d.skipped_videos) + Len(d.new_videos) = Considered(j)
         /\ {v.video_id : v \in Range(d.skipped_videos) \cup Range(d.new_videos)}
              = {v.video_id : v \in Range(top)}
         /\ \A a \in 1..Considered(j) : \A b \in (Considered(j) + 1)..Len(env.file_videos) :
              env.file_videos[a].view_count >= env.file_videos[b].view_count
         /\ (\A a \in 1..Considered(j) : top[a].video_id \in PriorIds) =>
              /\ jobs_store[j].status = "completed"
              /\ jobs_store[j].summary = [processed |-> 0, skipped |-> Considered(j)]
              /\ svc.submits = <<>>

\* The run was limited to the top record, which a prior run had processed: it
\* completed with processed 0 although the second record was never processed.
C31_Witness ==
  \E j \in Jobs :
    /\ Deduplicated(j)
    /\ jobs_store[j].config.videosToProcess = 1
    /\ Len(env.file_videos) = 2
    /\ PriorIds = {env.file_videos[1].video_id}
    /\ jobs_store[j].status = "completed"
    /\ jobs_store[j].summary = [processed |-> 0, skipped |-> 1]

\* ---------------------------------------------------------------------- C32
\* Run a is over and its record at position idx of the new records did not
\* reach the final record set.
FailedIn(a, idx) ==
  /\ drv[a].pc = "done"
  /\ idx \in 1..Len(drv[a].new_videos)
  /\ idx \notin Range(drv[a].videos_with_transcripts)

FinalIds(a) ==
  {drv[a].new_videos[n].video_id : n \in Range(drv[a].videos_with_transcripts)}

C32_NextRunResubmits ==
  \A a, b \in Jobs : \A idx \in 1..MaxVideos :
    (FailedIn(a, idx) /\ a < b /\ drv[b].pc \notin {"none", "queued", "parse", "dedup"}) =>
      LET id == drv[a].new_videos[idx].video_id
      IN /\ id \notin IdsOf(a)
         /\ id \notin {v.video_id : v \in Range(drv[b].skipped_videos)}
         /\ id \in {v.video_id : v \in Range(drv[b].new_videos)}
         /\ SubmitLoopOver(b) =>
              \E n \in 1..Len(svc.submits) :
                svc.submits[n].job = b /\ svc.submits[n].video_id = id

\* C32: the tabular output of a run holds only records of its final record
\* set, and a record that failed in one run is a new record of a later run on
\* the same file, which submits it again.
C32_OnlyFinalSetIsWritten ==
  /\ \A a \in Jobs : output[a].exists => IdsOf(a) \subseteq FinalIds(a)
  /\ C32_NextRunResubmits

\* The first run wrote one record and failed on the other; the second run,
\* started after the first had ended, skipped the first and submitted the
\* failed one again.
C32_Witness ==
  \E idx \in 1..2 :
    /\ FailedIn(1, idx)
    /\ output[1].exists
    /\ Cardinality(IdsOf(1)) = 1
    /\ SubmitLoopOver(2)
    /\ Len(drv[2].skipped_videos) = 1
    /\ \E n \in 1..Len(svc.submits) :
         /\ svc.submits[n].job = 2
         /\ svc.submits[n].video_id = drv[1].new_videos[idx].video_id

\* ---------------------------------------------------------------------- C33
\* Every record the run took from the file is in the prior output.
AllKnown(j) == \A n \in 1..Len(drv[j].videos) : drv[j].videos[n].video_id \in PriorIds

\* C33: a run with records, all of them in the dedup set, ends completed at
\* progress 100 with processed 0 and skipped equal to the number of its
\* records; it sends no submit, status or fetch request, its status list is
\* empty and it writes no artifact.
C33_AllSkippedRun ==
  \A j \in Jobs :
    (Deduplicated(j) /\ AllKnown(j)) =>
      /\ drv[j].pc = "done"
      /\ jobs_store[j].status = "completed"
      /\ jobs_store[j].progress = 100
      /\ jobs_store[j].summary = [processed |-> 0, skipped |-> Len(drv[j].videos)]
      /\ jobs_store[j].videos = <<>>
      /\ svc.submits = <<>>
      /\ svc.fetches = <<>>
      /\ tasks[j] = <<>>
      /\ NoArtifact(j)

\* A run on a file of two records, both processed by an earlier run, ended
\* completed with skipped 2.
C33_Witness ==
  \E j \in Jobs :
    /\ Deduplicated(j)
    /\ AllKnown(j)
    /\ Len(drv[j].videos) = 2
    /\ jobs_store[j].summary = [processed |-> 0, skipped |-> 2]
    /\ output[0].exists

\* ---------------------------------------------------------------------- C34
\* The record of entry n of job j is a row of the run's tabular artifact.
Written(j, n) == output[j].exists /\ jobs_store[j].videos[n].id \in IdsOf(j)

\* C34: in every job state a client can be shown (the driver is not in the
\* middle of a callback), an entry whose csv step is completed belongs to a
\* record written to the run's tabular artifact; this includes the error
\* state a failed write leaves.
C34_CsvStepMeansWritten ==
  \A j \in Jobs :
    (Created(j) /\ loop # j) =>
      \A n \in 1..Len(jobs_store[j].videos) :
        jobs_store[j].videos[n].csv = "completed" => Written(j, n)

\* ---------------------------------------------------------------------- C35
\* C35: every identifier the gate returns for a channel is in an artifact
\* that was written for that channel; an identifier found only in artifacts
\* of other channels is not returned.
C35_OnlyOwnChannel ==
  (applied.fn = "gate" /\ applied.done) =>
    \A id \in applied.existing_ids :
      \E f \in applied.files : f.written_for = applied.channel_name /\ id \in f.ids

\* ---------------------------------------------------------------------- C36
\* The uploads named filename that were registered when job n was created.
UploadsBefore(n, filename) ==
  {i \in 1..applied.jobs[n].uploads : applied.uploaded_files[i].filename = filename}

C36_BoundToEarliest ==
  applied.fn = "uploads" =>
    \A n \in 1..Len(applied.jobs) :
      LET job == applied.jobs[n]
      IN /\ job.file_id \in UploadsBefore(n, job.filename)
         /\ \A i \in UploadsBefore(n, job.filename) : job.file_id <= i
         /\ job.fileInfo = applied.uploaded_files[job.file_id]

C36_BindingIsKept ==
  applied.fn = "uploads" =>
    \A n \in 1..Len(applied.jobs) : n <= Len(applied'.jobs) /\ applied'.jobs[n] = applied.jobs[n]

\* C36: a process request for a filename binds the job to the earliest
\* registered upload of that name and to its content; after two uploads of
\* the same name every later request runs on the first, and a binding is
\* never changed by later uploads.
C36_EarliestUploadWins == []C36_BoundToEarliest /\ [][C36_BindingIsKept]_vars

\* Two uploads of the same name with different contents were registered, and
\* a job created afterwards runs on the content of the first.
C36_Witness ==
  /\ applied.fn = "uploads"
  /\ \E n \in 1..Len(applied.jobs) :
       /\ Cardinality(UploadsBefore(n, applied.jobs[n].filename)) = 2
       /\ applied.jobs[n].file_id = 1
       /\ applied.jobs[n].fileInfo.content = "v1"
       /\ \E i \in UploadsBefore(n, applied.jobs[n].filename) :
            applied.uploaded_files[i].content = "v2"

====
